---- MODULE Spec2Model ----
(***************************************************************************)
(* Broker (Server), sessions (ClientHandle) and in-process peers (Client)  *)
(* of buxtehude, as a state machine.  A stream session is fed the frames   *)
(* its socket holds when the broker reads it: they are an input of the     *)
(* read step, since nothing the broker does before reading depends on      *)
(* them.  Internal sessions are fed through the broker's internal-message  *)
(* queue.  delivered records, per session, what ClientHandle::Write handed *)
(* to the peer during the last step.                                       *)
(***************************************************************************)
EXTENDS Integers, Sequences, FiniteSets, TLC

\* ------------------------------------------------------------------ bounds
MaxHandles == 3      \* sessions created over a run
MaxSends == 3        \* numbered messages peers send over a run
MaxTime == 3         \* wall-clock seconds the run spans
MaxBurst == 2        \* frames one read finds on a socket
MaxQueue == 3        \* entries of the internal-message queue
ClockHandles == 2    \* sessions of the run the clock is observed on
FairHandles == 2     \* sessions of the run with a fair broker loop
MaxFrames == 3       \* frames a peer writes to its socket, byte by byte
MaxSenders == 1      \* sessions of the run whose peers write bytes
ByteHandles == 2     \* sessions of the run next to a peer writing bytes
CancelHandles == 2   \* sessions of the run in which threads are cancelled
SrcHandles == 2      \* sessions of the run whose senders fill src
CtlHandles == 2      \* sessions of the run sending control-only messages
JoinHandles == 2     \* sessions of the run with reconnecting socket clients
InvalidHandles == 2  \* sessions of the run that send invalid $$available
ErrHandles == 2      \* sessions of the run whose frames are in error
ShakeHandles == 2    \* sessions of the run that send handshakes
RateHandles == 2     \* sessions of the run with a storm of oversize frames

\* ------------------------------------------------------- program constants
MSG_ALL == "$$all"
MSG_AVAILABLE == "$$available"
MSG_DISCONNECT == "$$disconnect"
MSG_ERROR == "$$error"
MSG_HANDSHAKE == "$$handshake"
MSG_YOU == "$$you"
CURRENT_VERSION == 0
MIN_COMPATIBLE_VERSION == 0
JSON == 0
MSGPACK == 1
DEFAULT_MAX_MESSAGE_LENGTH == 131072
DEFAULT_TEAMNAME == "default"

Handles == 1..MaxHandles
NULL == 0
Clients == {1}
Teams == {"a", "b"}
Types == {"x", "y"}

\* preferences.teamname of each in-process Client object.
ClientTeam(c) == "a"

\* ------------------------------------------------------------ JSON values
\* A JSON scalar is a tagged record; a content object maps every key the
\* protocol uses to a scalar, Absent when the key is missing.  The key
\* "root" stands for a content that is itself a scalar (the $$error text).
Absent == [t |-> "absent", s |-> "", n |-> 0, b |-> FALSE]
Str(x) == [t |-> "string", s |-> x, n |-> 0, b |-> FALSE]
Num(x) == [t |-> "number", s |-> "", n |-> x, b |-> FALSE]
Bool(x) == [t |-> "boolean", s |-> "", n |-> 0, b |-> x]

Keys == {"root", "teamname", "format", "max-message-length", "version",
         "type", "available", "who", "reason", "id"}
NoContent == [k \in Keys |-> Absent]
Obj(f) == f @@ NoContent

\* Message{dest, src, type, content, only_first}
Message(type, dest, only_first, content) ==
    [type |-> type, dest |-> dest, src |-> "", only_first |-> only_first,
     content |-> content]

\* JSON values of the other kinds: null and containers of n elements.
JsonNull == [t |-> "null", s |-> "", n |-> 0, b |-> FALSE]
JsonObject(n) == [t |-> "object", s |-> "", n |-> n, b |-> FALSE]
JsonArray(n) == [t |-> "array", s |-> "", n |-> n, b |-> FALSE]

\* basic_json::empty(): null and containers without elements; a string, a
\* number or a boolean is never empty.
JsonEmpty(j) == j.t = "null" \/ (j.t \in {"object", "array"} /\ j.n = 0)

\* A default-constructed Message.
DefaultMessage ==
    [type |-> "", dest |-> "", src |-> "", only_first |-> FALSE,
     content |-> JsonNull]

\* The keys of a Message's JSON object, in std::map's order.
MessageKeys == <<"content", "dest", "only_first", "src", "type">>

\* to_json(json&, const Message&)
to_json(msg) ==
    [k \in {MessageKeys[i] : i \in 1..Len(MessageKeys)} |->
        CASE k = "type" -> Str(msg.type)
          [] k = "only_first" -> Bool(msg.only_first)
          [] k = "dest" -> IF msg.dest = "" THEN Absent ELSE Str(msg.dest)
          [] k = "src" -> IF msg.src = "" THEN Absent ELSE Str(msg.src)
          [] k = "content" -> IF JsonEmpty(msg.content) THEN Absent
                              ELSE msg.content]

\* from_json(const json&, Message&) into a default-constructed Message.
from_json(j) ==
    [type |-> IF j["type"] # Absent THEN j["type"].s ELSE DefaultMessage.type,
     dest |-> IF j["dest"] # Absent THEN j["dest"].s ELSE DefaultMessage.dest,
     src |-> IF j["src"] # Absent THEN j["src"].s ELSE DefaultMessage.src,
     only_first |-> IF j["only_first"] # Absent THEN j["only_first"].b
                    ELSE DefaultMessage.only_first,
     content |-> IF j["content"] # Absent THEN j["content"]
                 ELSE DefaultMessage.content]

\* json::dump / json::to_msgpack: the format's first byte and the members
\* the object has, key then value, in key order.
dump(f, j) ==
    <<IF f = JSON THEN 123 ELSE 130>> \o
    SelectSeq([i \in 1..Len(MessageKeys) |-> <<MessageKeys[i], j[MessageKeys[i]]>>],
              LAMBDA member : member[2] # Absent)

\* json::parse / json::from_msgpack: the object with the members of data.
parse(f, data) ==
    [k \in {MessageKeys[i] : i \in 1..Len(MessageKeys)} |->
        LET at == {i \in 2..Len(data) : data[i][1] = k}
        IN IF at = {} THEN Absent ELSE data[CHOOSE i \in at : TRUE][2]]

\* Messages of every shape: each field empty or not, content of every kind.
CodecMessages ==
    [type : {"", "x"}, dest : {"", "a"}, src : {"", "b"},
     only_first : BOOLEAN,
     content : {JsonNull, JsonObject(0), JsonObject(1), JsonArray(0),
                JsonArray(1), Str(""), Str("x"), Num(0), Bool(FALSE)}]

\* No message is being encoded.
NoCodec ==
    [stage |-> "idle", format |-> MSGPACK, msg |-> DefaultMessage,
     data |-> <<>>, back |-> DefaultMessage]

\* ---------------------------------------------------------------- validator
\* nlohmann orders values of different types by type: null < boolean <
\* number < object < array < string.
TypeRank(j) ==
    CASE j.t = "boolean" -> 1
      [] j.t = "number" -> 2
      [] j.t = "string" -> 5
      [] OTHER -> 0

NotEmpty(j) == j.t = "string" /\ j.s # ""
IsBool(j) == j.t = "boolean"
IsNumber(j) == j.t = "number"
Matches(j, cmp) == j.t = "number" /\ j.n \in cmp
GreaterEq(j, cmp) == IF j.t = "number" THEN j.n >= cmp ELSE TypeRank(j) >= 2

Pred(p, j) ==
    CASE p = "NotEmpty" -> NotEmpty(j)
      [] p = "IsBool" -> IsBool(j)
      [] p = "IsNumber" -> IsNumber(j)
      [] p = "MatchesFormat" -> Matches(j, {JSON, MSGPACK})
      [] p = "VersionCheck" -> GreaterEq(j, MIN_COMPATIBLE_VERSION)
      [] OTHER -> TRUE

VALIDATE_HANDSHAKE_SERVERSIDE ==
    << <<"teamname", "NotEmpty">>, <<"format", "MatchesFormat">>,
       <<"max-message-length", "IsNumber">>, <<"version", "VersionCheck">> >>

VALIDATE_HANDSHAKE_CLIENTSIDE == << <<"version", "VersionCheck">> >>

VALIDATE_AVAILABLE == << <<"type", "NotEmpty">>, <<"available", "IsBool">> >>

\* A validator that accepts every content.
ValidateJSON_Always(j, tests) == TRUE

ValidateJSON(j, tests) ==
    \A i \in 1..Len(tests) :
        /\ j[tests[i][1]].t # "absent"
        /\ Pred(tests[i][2], j[tests[i][1]])

\* ------------------------------------------------------------------- state
VARIABLES
    clients,            \* Server::clients, in insertion order (handle ids)
    handle,             \* the fields of every ClientHandle
    client,             \* the fields of every in-process Client
    internal_messages,  \* Server::internal_messages: <<client, message>>
    read_internal_event,\* read_internal_event is active
    peerClosed,         \* per stream session: the peer closed its end
    now,                \* time(nullptr)
    nsent,              \* numbered messages sent so far
    sentBy,             \* sender of numbered message i
    seen,               \* per session: ids of the numbered messages delivered
    error_at,           \* per session: last_error of every $$error written
    rejected,           \* sessions the handshake gate closed
    delivered,          \* per session: messages Write delivered, last step
    handled,            \* messages HandleMessage accepted, last step
    left,               \* sessions erased from the table, last step
    stream,             \* per stream session: ClientHandle::stream
    sock,               \* per stream session: bytes fread can return
    out,                \* per stream session: bytes its peer wrote, in flight
    sent,               \* per stream session: the frames its peer wrote
    frames,             \* per stream session: the frames Read completed
    notices,            \* the $$disconnect broadcasts sessions were sent
    unguarded,          \* accesses to clients without clients_mutex, last step
    held_writes,        \* sessions written to under clients_mutex, last step
    loop,               \* the broker's loop thread and the caller of Close
    peer,               \* per stream session: the Client at the other end
    again,              \* calls that found nothing left to close, last step
    attempts,           \* per session: messages Write took to its stream
                        \* or its in-process peer, last step
    dangling,           \* handles read after their destructor ran, last step
    invoked,            \* Client::Internal_Receive calls: the session, the
                        \* message type, the calling thread, the mutexes
                        \* it holds and the peer's connected flag, last step
    closed_reads,       \* sessions whose stream was passed to fread after
                        \* its fclose, last step
    codec               \* a Message on its way through WriteToStream's
                        \* encoder and Deserialise

vars == <<clients, handle, client, internal_messages, read_internal_event,
          peerClosed, now, nsent, sentBy, seen, error_at, rejected,
          delivered, handled, left, stream, sock, out, sent, frames, notices,
          unguarded, held_writes, loop, peer, again, attempts,
          dangling, invoked, closed_reads, codec>>

\* ClientHandle's member initialisers (server.hpp) and ClientPreferences'.
NoHandle ==
    [conn_type |-> "NONE", client_ptr |-> NULL, connected |-> FALSE,
     handshaken |-> FALSE, teamname |-> DEFAULT_TEAMNAME, format |-> MSGPACK,
     max_msg_length |-> DEFAULT_MAX_MESSAGE_LENGTH, unavailable |-> <<>>,
     last_error |-> 0]

\* A handle after its destructor ran.
Freed == [NoHandle EXCEPT !.conn_type = "FREED"]

\* A field of a Stream: its length, the capacity of its buffer and the bytes
\* read into it so far.
Field(length) == [length |-> length, cap |-> length, data |-> <<>>]

\* The Stream of a session as its constructor leaves it: a field for the
\* format, a field for the length, no current field.
NoStream ==
    [fields |-> <<Field(1), Field(4)>>, deleted |-> <<>>, current |-> 0,
     data_offset |-> 0, status |-> "OKAY", resumed |-> FALSE]

\* A socket Client before UnixConnect or IPConnect: not connected, no
\* stream, no loop thread; terminate tells that a joinable std::thread
\* was destroyed or assigned over, which calls std::terminate.
NoPeer ==
    [connected |-> FALSE, file |-> FALSE, listen |-> "none",
     interrupt_event |-> FALSE, readable |-> FALSE, closer |-> "idle",
     joinable |-> FALSE, terminate |-> FALSE]

\* The part of the state the broker's code reads and writes, threaded
\* through the operators below as one record.
Broker ==
    [clients |-> clients, handle |-> handle, client |-> client, now |-> now,
     seen |-> seen, error_at |-> error_at, rejected |-> rejected,
     delivered |-> [h \in Handles |-> <<>>], handled |-> <<>>, left |-> <<>>,
     stream |-> stream, sock |-> sock, frames |-> frames, notices |-> notices,
     thread |-> "loop", locked |-> FALSE, serviced |-> {},
     unguarded |-> {}, held_writes |-> {}, peer |-> peer, again |-> {},
     attempts |-> [h \in Handles |-> <<>>], loop |-> loop,
     dangling |-> {}, invoked |-> {}, closed_reads |-> {}]

\* std::lock_guard on clients_mutex: the executing thread takes and
\* releases it.
Lock(B) == [B EXCEPT !.locked = TRUE]
Unlock(B) == [B EXCEPT !.locked = FALSE]

\* An access (insert, erase, lookup, iterate) to Server::clients by the
\* executing thread; unguarded logs it when the thread does not hold
\* clients_mutex.
Access(B, op) ==
    IF B.locked THEN B
    ELSE [B EXCEPT !.unguarded = @ \cup {[thread |-> B.thread, op |-> op]}]

\* The sessions the running handler services.
Servicing(B, hs) == [B EXCEPT !.serviced = hs]

\* ClientHandle::Write past its connected check: msg goes to the stream or
\* to the in-process peer of session h.
Attempt(B, h, msg) == [B EXCEPT !.attempts[h] = Append(@, msg)]

\* A write to session h; held_writes logs it when the executing thread
\* holds clients_mutex and h is not a session being serviced.
Held(B, h) ==
    IF B.locked /\ h \notin B.serviced
    THEN [B EXCEPT !.held_writes = @ \cup {h}] ELSE B

Range(s) == {s[i] : i \in 1..Len(s)}

\* ------------------------------------------------------------ ClientHandle
\* The peer of session h has msg; a numbered message is logged in seen.
Deliver(B, h, msg) ==
    [B EXCEPT !.delivered[h] = Append(@, msg),
              !.seen[h] = IF msg.content["id"].t = "number"
                          THEN Append(@, msg.content["id"].n) ELSE @]

\* The handler Client::HandleMessage finds for msg, given whether the table
\* holds the default $$handshake handler.
Handler(handshake_handler, msg) ==
    IF msg.type = MSG_HANDSHAKE /\ handshake_handler THEN "default" ELSE "none"

\* Client::HandleMessage with the default handler for $$handshake.  Its
\* c.Disconnect() on an invalid handshake returns at once: the broker hands
\* $$handshake to an in-process peer only inside Internal_AddClient, before
\* InternalConnect sets connected.
Client_HandleMessage(B, c, msg) ==
    IF msg.type = "" THEN B
    ELSE IF Handler(B.client[c].handshake_handler, msg) = "default"
         THEN IF ~ValidateJSON(msg.content, VALIDATE_HANDSHAKE_CLIENTSIDE)
              THEN B
              ELSE [B EXCEPT !.client[c].handshake_handler = FALSE]
         ELSE B

\* The mutexes the executing thread holds, given whether it is inside a
\* lock_guard on clients_mutex; internal_mutex is released before any
\* message is handled.
HeldMutexes(locked) == IF locked THEN {"clients_mutex"} ELSE {}

\* The calls of the claim a handler of the application can make.
HandlerCalls == {"Write", "Disconnect", "GetClients"}

\* The mutex a call locks on the calling thread: Client::Write ->
\* Server::Internal_ReceiveFrom locks internal_mutex; Client::Disconnect
\* returns at once unless connected, and else -> Internal_RemoveClient
\* locks clients_mutex; Server::GetClients locks clients_mutex.
Acquires(call, connected) ==
    CASE call = "Write" -> {"internal_mutex"}
      [] call = "Disconnect" -> IF connected THEN {"clients_mutex"} ELSE {}
      [] call = "GetClients" -> {"clients_mutex"}

\* Client::Internal_Receive -> Client::HandleMessage, on the thread that
\* called ClientHandle::Write.
Internal_Receive(B, h, msg) ==
    LET c == B.handle[h].client_ptr
        B1 == [B EXCEPT !.invoked = @ \cup
                  {[handle |-> h, type |-> msg.type, thread |-> B.thread,
                    handler |-> Handler(B.client[c].handshake_handler, msg),
                    held |-> HeldMutexes(B.locked),
                    connected |-> B.client[c].connected]}]
    IN Deliver(Client_HandleMessage(B1, c, msg), h, msg)

\* Message::WriteToStream fails once the peer has closed its end.
WriteToStream(h) == ~peerClosed[h]

\* Whether ClientHandle::Write returns tb::ok.
WriteOk(B, h) ==
    /\ B.handle[h].connected
    /\ B.handle[h].conn_type = "INTERNAL" \/ WriteToStream(h)

Write(B, h, msg) ==
    IF ~B.handle[h].connected THEN B
    ELSE IF B.handle[h].conn_type = "INTERNAL"
    THEN Internal_Receive(Attempt(Held(B, h), h, msg), h, msg)
    ELSE IF WriteToStream(h) THEN Deliver(Attempt(Held(B, h), h, msg), h, msg)
    ELSE Attempt(Held(B, h), h, msg)

Handshake(B, h) ==
    Write(B, h, Message(MSG_HANDSHAKE, "", FALSE,
                        Obj([version |-> Num(CURRENT_VERSION)])))

\* Client::Internal_Disconnect
Internal_Disconnect(B, c) ==
    IF ~B.client[c].connected THEN B
    ELSE [B EXCEPT !.client[c].connected = FALSE,
                   !.client[c].server_ptr = FALSE]

Disconnect_NoWrite(B, h) ==
    IF ~B.handle[h].connected THEN B
    ELSE LET B1 == IF B.handle[h].conn_type = "INTERNAL"
                   THEN Internal_Disconnect(B, B.handle[h].client_ptr)
                   ELSE B      \* fclose(stream.file)
         IN [B1 EXCEPT !.handle[h].connected = FALSE]

Disconnect(B, h, reason) ==
    IF ~B.handle[h].connected THEN B
    ELSE Disconnect_NoWrite(
             Write(B, h, Message(MSG_DISCONNECT, "", FALSE,
                       Obj([reason |-> Str(reason), who |-> Str(MSG_YOU)]))),
             h)

\* A rate limit that lets a second reply through within the same second.
ErrorSuppressed_SameSecond(t, last_error) == t - last_error < 0

\* The test that suppresses an error reply within the same second.
ErrorSuppressed(t, last_error) == t - last_error < 1

\* An Error that closes the session only when its reply could not be
\* written.
MustClose_OnFailure(handshaken, success) == ~success

\* Error: if (!handshaken || !success) Disconnect("Failed handshake");
MustClose(handshaken, success) == ~handshaken \/ ~success

\* dt: the seconds that pass between the two time(nullptr) calls.
Error(B, h, errstr, dt) ==
    IF ErrorSuppressed(B.now, B.handle[h].last_error) THEN B
    ELSE LET t == B.now + dt
             B1 == [B EXCEPT !.now = t, !.handle[h].last_error = t]
             success == WriteOk(B1, h)
             B2 == Write(B1, h, Message(MSG_ERROR, "", FALSE,
                                        Obj([root |-> Str(errstr)])))
             B3 == IF success
                   THEN [B2 EXCEPT !.error_at[h] = Append(@, t)]
                   ELSE B2
         IN IF MustClose(B.handle[h].handshaken, success)
            THEN Disconnect(B3, h, "Failed handshake")
            ELSE B3

RECURSIVE Find(_, _, _)
\* std::ranges::find: the first index at or after i holding x, or Len + 1.
Find(s, x, i) ==
    IF i > Len(s) THEN i
    ELSE IF s[i] = x THEN i
    ELSE Find(s, x, i + 1)

Erase(s, i) == SubSeq(s, 1, i - 1) \o SubSeq(s, i + 1, Len(s))

Available(B, h, type) ==
    Find(B.handle[h].unavailable, type, 1) = Len(B.handle[h].unavailable) + 1

\* ------------------------------------------------------------------ Server
RECURSIVE Filter(_, _, _)
\* std::views::filter over the table: the handles of s whose team is team.
Filter(B, s, team) ==
    IF s = <<>> THEN <<>>
    ELSE IF B.handle[Head(s)].teamname = team
         THEN <<Head(s)>> \o Filter(B, Tail(s), team)
         ELSE Filter(B, Tail(s), team)

GetClients_NoLock(B, team) ==
    IF team = MSG_ALL THEN B.clients ELSE Filter(B, B.clients, team)

RECURSIVE FirstAvailableFrom(_, _, _, _, _, _)
\* The loop of GetFirstAvailable from table position i on, result so far.
FirstAvailableFrom(B, team, type, exclude, i, result) ==
    IF i > Len(B.clients) THEN result
    ELSE LET ch == B.clients[i] IN
         IF (B.handle[ch].teamname = team \/ team = MSG_ALL) /\ ch # exclude
         THEN IF Available(B, ch, type) THEN ch
              ELSE FirstAvailableFrom(B, team, type, exclude, i + 1, ch)
         ELSE FirstAvailableFrom(B, team, type, exclude, i + 1, result)

GetFirstAvailable(B, team, type, exclude) ==
    FirstAvailableFrom(B, team, type, exclude, 1, NULL)

\* A write whose failure leaves the recipient open.
WriteOrClose_Keep(B, h, msg) == Write(B, h, msg)

\* if (destination->Write(msg).is_error()) destination->Disconnect_NoWrite();
WriteOrClose(B, h, msg) ==
    IF WriteOk(B, h) THEN Write(B, h, msg)
    ELSE Disconnect_NoWrite(Write(B, h, msg), h)

RECURSIVE WriteAll(_, _, _)
WriteAll(B, recipients, msg) ==
    IF recipients = <<>> THEN B
    ELSE WriteAll(WriteOrClose(B, Head(recipients), msg), Tail(recipients), msg)

\* Server::GetClients takes the lock for the snapshot.
Broadcast(B, msg) ==
    WriteAll(Unlock(Access(Lock(B), "iterate")),
             GetClients_NoLock(B, MSG_ALL), msg)

\* The recipients' loop without its test against the sender.
Without_Nobody(s, ch) == s

RECURSIVE Without(_, _)
\* for (destination : recipients) if (destination != ch) ...
Without(s, ch) ==
    IF s = <<>> THEN <<>>
    ELSE IF Head(s) = ch THEN Without(Tail(s), ch)
    ELSE <<Head(s)>> \o Without(Tail(s), ch)

\* The recipients HandleMessage writes msg to.
Recipients(B, ch, msg) ==
    IF msg.only_first
    THEN LET destination == GetFirstAvailable(B, msg.dest, msg.type, ch)
         IN IF destination # NULL THEN <<destination>> ELSE <<>>
    ELSE Without(GetClients_NoLock(B, msg.dest), ch)

\* A HandleMessage that lets the sender's src through.
Stamp_Keep(teamname, m) == m

\* HandleMessage: msg.src = ch->preferences.teamname
Stamp(teamname, m) == [m EXCEPT !.src = teamname]

\* The routing half of HandleMessage.  handled logs the message with the
\* table, team names, availability and open sessions it was routed on; was
\* is the sender's unavailable list before the message.
Route(B, ch, m, was) ==
    LET msg == IF m.dest = "" THEN m ELSE Stamp(B.handle[ch].teamname, m)
        to == IF m.dest = "" THEN <<>> ELSE Recipients(B, ch, msg)
        B1 == IF m.dest = "" THEN B
              ELSE WriteAll(Access(B, "iterate"), to, msg)
    IN [B1 EXCEPT !.handled = Append(@,
            [sender |-> ch, msg |-> msg, src |-> m.src, written |-> to,
             ok |-> {h \in Range(to) : Len(B1.delivered[h]) > Len(B.delivered[h])},
             table |-> B.clients,
             team |-> [h \in Handles |-> B.handle[h].teamname],
             unavailable |-> [h \in Handles |-> Range(B.handle[h].unavailable)],
             was |-> was,
             open |-> {h \in Handles : B.handle[h].connected},
             peer_closed |-> {h \in Handles : peerClosed[h]}])]

\* An $$available branch whose Error is not followed by return.
InvalidAvailable_FallThrough(B, ch, msg, dt) ==
    Route(Error(B, ch, "Incorrect format for $$available message", dt),
          ch, msg, B.handle[ch].unavailable)

\* HandleMessage's $$available branch for a content that fails validation:
\* ch->Error(...); return;
InvalidAvailable(B, ch, msg, dt) ==
    Error(B, ch, "Incorrect format for $$available message", dt)

\* A HandleMessage that takes every message to the handshake gate.
AtGate_Always(handshaken) == TRUE

\* HandleMessage: if (!ch->handshaken)
AtGate(handshaken) == ~handshaken

\* The $$available branch with every available:false appended.
SetAvailable_Duplicates(B, ch, content) ==
    LET type == content["type"].s
        un == B.handle[ch].unavailable
        it == Find(un, type, 1)
    IN IF content["available"].b
       THEN IF it # Len(un) + 1
            THEN [B EXCEPT !.handle[ch].unavailable = Erase(un, it)] ELSE B
       ELSE [B EXCEPT !.handle[ch].unavailable = Append(un, type)]

\* The $$available branch, content already validated.
SetAvailable(B, ch, content) ==
    LET type == content["type"].s
        available == content["available"].b
        un == B.handle[ch].unavailable
        it == Find(un, type, 1)
    IN IF available
       THEN IF it # Len(un) + 1
            THEN [B EXCEPT !.handle[ch].unavailable = Erase(un, it)] ELSE B
       ELSE IF it = Len(un) + 1
            THEN [B EXCEPT !.handle[ch].unavailable = Append(un, type)] ELSE B

HandleMessage(B, ch, msg, dt) ==
    IF AtGate(B.handle[ch].handshaken)
    THEN IF \/ msg.type # MSG_HANDSHAKE
            \/ ~ValidateJSON(msg.content, VALIDATE_HANDSHAKE_SERVERSIDE)
         THEN Disconnect([B EXCEPT !.rejected = @ \cup {ch}], ch,
                         "Failed handshake")
         ELSE [B EXCEPT
                 !.handle[ch].teamname = msg.content["teamname"].s,
                 !.handle[ch].format = msg.content["format"].n,
                 !.handle[ch].max_msg_length = msg.content["max-message-length"].n,
                 !.handle[ch].handshaken = TRUE]
    ELSE IF msg.type = MSG_AVAILABLE /\ ~ValidateJSON(msg.content, VALIDATE_AVAILABLE)
    THEN InvalidAvailable(B, ch, msg, dt)
    ELSE LET B1 == IF msg.type = MSG_AVAILABLE
                   THEN SetAvailable(B, ch, msg.content) ELSE B
         IN Route(B1, ch, msg, B.handle[ch].unavailable)

\* ----------------------------------------------------------- stream reader
\* A frame on the wire: a decodable message, a header with an unknown format
\* byte, a header declaring more than max_msg_length, or a body that does
\* not parse.
\* A Stream::Read that returns as soon as its field callback has closed
\* the file.
FreadClosed_Returns(B, h) == B

\* Stream::Read after a callback that reset the stream: "if (!current)
\* continue;" goes round the loop and calls fread on stream.file, which the
\* callback's Error has closed.  Whether that fread reports end of file or
\* an error, Stream::Read returns false, ClientHandle::Read's Disconnect
\* finds connected false, and Serve erases the session.
FreadClosed(B, h) == [B EXCEPT !.closed_reads = @ \cup {h}]

Frame(kind, msg) == [kind |-> kind, msg |-> msg]
NoMessage == Message("", "", FALSE, NoContent)

RECURSIVE Read(_, _, _, _)
\* ClientHandle::Read over the frames w the socket holds: the header
\* callback replies to a rejected header and Stream::Read goes on with the
\* next one.  Once Error has closed the file the pending fread finds
\* nothing to return.
Read(B, h, w, dt) ==
    IF w = <<>>
    THEN IF peerClosed[h]
         THEN [B |-> Disconnect(B, h, "Disconnected by server"),
               result |-> "CONNECTION_ERROR", msg |-> NoMessage]
         ELSE [B |-> B, result |-> "INCOMPLETE_MESSAGE", msg |-> NoMessage]
    ELSE LET f == Head(w) IN
         CASE f.kind = "message" ->
                [B |-> B, result |-> "OK", msg |-> f.msg]
           [] f.kind = "unparsable" ->
                [B |-> Error(B, h, "Error parsing message", dt),
                 result |-> "PARSE_ERROR", msg |-> NoMessage]
           [] OTHER ->
                LET B1 == Error(B, h, IF f.kind = "badformat"
                                      THEN "Invalid message type!"
                                      ELSE "Buffer size too big!", dt)
                IN IF ~B1.handle[h].connected
                   THEN [B |-> FreadClosed(B1, h),
                         result |-> "INCOMPLETE_MESSAGE", msg |-> NoMessage]
                   ELSE Read(B1, h, Tail(w), dt)

\* std::erase_if(clients, ...) for one handle and the destructor of the
\* handle; left logs the departure with the team name the session had.
EraseHandle(B, ch) ==
    LET B1 == [B EXCEPT
                 !.clients = SelectSeq(@, LAMBDA x : x # ch),
                 !.left = Append(@, [handle |-> ch,
                                     team |-> B.handle[ch].teamname,
                                     client_ptr |-> B.handle[ch].client_ptr])]
        B2 == Disconnect(B1, ch, "Disconnected by server")
    IN [B2 EXCEPT !.handle[ch] = Freed, !.stream[ch] = NoStream]

DisconnectNotice(who) ==
    Message(MSG_DISCONNECT, "", FALSE, Obj([who |-> Str(who)]))

\* Broadcast of the $$disconnect for a departed session of transport
\* conn_type and team teamname; notices logs it when a session has it.
Departed(B, conn_type, teamname, who) ==
    LET B1 == Broadcast(B, DisconnectNotice(who))
    IN IF \E h \in Handles : Len(B1.delivered[h]) > Len(B.delivered[h])
       THEN [B1 EXCEPT !.notices = @ \cup {[internal |-> conn_type = "INTERNAL",
                                            team |-> teamname, who |-> who]}]
       ELSE B1

\* A read through the pointer ch; dangling logs it when the handle ch
\* pointed to is destroyed.
Deref(B, ch) ==
    IF B.handle[ch] = Freed THEN [B EXCEPT !.dangling = @ \cup {ch}] ELSE B

\* What ch->preferences.teamname reads after the string was moved from and
\* the handle destroyed: the moved-from string as the library left it, or
\* the characters still in the freed storage.
MovedFrom(teamname) == {"", teamname}

\* Server::Serve, given the Read result r; who: the value the broadcast reads.
Serve(B, ch, r, dt, who) ==
    LET B1 == IF r.result = "OK" THEN HandleMessage(r.B, ch, r.msg, dt) ELSE r.B
    IN IF ~B1.handle[ch].connected
       THEN Departed(Deref(Unlock(EraseHandle(Access(Lock(B1), "erase"), ch)), ch),
                     B1.handle[ch].conn_type, B1.handle[ch].teamname, who)
       ELSE B1

RECURSIVE GetClientFrom(_, _, _)
GetClientFrom(B, s, ptr) ==
    IF s = <<>> THEN NULL
    ELSE IF B.handle[Head(s)].client_ptr = ptr THEN Head(s)
    ELSE GetClientFrom(B, Tail(s), ptr)

\* Server::GetClientByPointer: the first session of the table bound to ptr.
GetClientByPointer(B, ptr) == GetClientFrom(B, B.clients, ptr)

RECURSIVE HandleInternal_Reversed(_, _, _)
\* The loop taking the drained queue from its back.
HandleInternal_Reversed(B, messages, dt) ==
    IF messages = <<>> THEN B
    ELSE LET last == messages[Len(messages)]
             ch == GetClientByPointer(B, last[1])
             B1 == IF ch = NULL THEN Access(B, "lookup")
                   ELSE HandleMessage(Servicing(Access(B, "lookup"), {ch}),
                                      ch, last[2], dt)
         IN HandleInternal_Reversed(B1, SubSeq(messages, 1, Len(messages) - 1), dt)

RECURSIVE HandleInternal(_, _, _)
\* The loop over the drained queue in Listen's INTERNAL_READ_READY branch.
HandleInternal(B, messages, dt) ==
    IF messages = <<>> THEN B
    ELSE LET ch == GetClientByPointer(B, Head(messages)[1])
             B1 == IF ch = NULL THEN Access(B, "lookup")
                   ELSE HandleMessage(Servicing(Access(B, "lookup"), {ch}),
                                      ch, Head(messages)[2], dt)
         IN HandleInternal(B1, Tail(messages), dt)

RECURSIVE BoundTo(_, _, _)
\* The handles of s whose client_ptr is c.
BoundTo(B, s, c) ==
    IF s = <<>> THEN <<>>
    ELSE IF B.handle[Head(s)].client_ptr = c
         THEN <<Head(s)>> \o BoundTo(B, Tail(s), c)
         ELSE BoundTo(B, Tail(s), c)

RECURSIVE EraseAll(_, _)
\* std::erase_if over the handles hs.
EraseAll(B, hs) ==
    IF hs = <<>> THEN B
    ELSE EraseAll(EraseHandle(B, Head(hs)), Tail(hs))

\* Server::Internal_RemoveClient
Internal_RemoveClient(B, c) ==
    LET hs == BoundTo(B, B.clients, c)
        B1 == Access(Lock(Servicing(B, Range(hs))), "erase")
    IN Departed(Unlock(EraseAll(B1, hs)), "INTERNAL", ClientTeam(c),
                ClientTeam(c))

\* Server::Internal_AddClient: the new handle is h.
Internal_AddClient(B, c, h) ==
    LET B0 == Access(Lock(Servicing(B, {h})), "insert")
        B1 == [B0 EXCEPT !.clients = Append(@, h),
                         !.handle[h] = [NoHandle EXCEPT
                             !.conn_type = "INTERNAL", !.client_ptr = c,
                             !.connected = TRUE, !.teamname = ClientTeam(c)]]
    IN Unlock(IF WriteOk(B1, h) THEN Handshake(B1, h)
              ELSE Disconnect_NoWrite(B1, h))

\* Server::AddConnection with the stream ClientHandle constructor.
AddConnection(B, h, conn_type) ==
    LET B0 == Access(Servicing(B, {h}), "insert")
        B1 == [B0 EXCEPT !.clients = Append(@, h),
                         !.handle[h] = [NoHandle EXCEPT
                             !.conn_type = conn_type, !.connected = TRUE]]
    IN IF WriteOk(B1, h) THEN Handshake(B1, h) ELSE Disconnect_NoWrite(B1, h)

\* ------------------------------------------------------------ peers' inputs
\* Client::Handshake's message for a peer of team t.
ClientHandshake(t) ==
    Message(MSG_HANDSHAKE, "", FALSE,
            Obj(("max-message-length" :> Num(DEFAULT_MAX_MESSAGE_LENGTH))
                @@ [format |-> Num(MSGPACK), teamname |-> Str(t),
                    version |-> Num(CURRENT_VERSION)]))

\* A handshake declaring team t, format f and max-message-length n, sent
\* to dest.
HandshakeOf(t, f, n, dest) ==
    Message(MSG_HANDSHAKE, dest, FALSE,
            Obj(("max-message-length" :> Num(n))
                @@ [format |-> Num(f), teamname |-> Str(t),
                    version |-> Num(CURRENT_VERSION)]))

\* Handshakes that differ in every value they declare, control-only or
\* addressed to all.
ShakeMessages ==
    {HandshakeOf(t, f, n, d) : t \in Teams, f \in {JSON, MSGPACK},
                               n \in {1024, DEFAULT_MAX_MESSAGE_LENGTH},
                               d \in {"", MSG_ALL}}

\* Client::SetAvailable's message.
AvailableMessage(type, available) ==
    Message(MSG_AVAILABLE, "", FALSE,
            Obj([type |-> Str(type), available |-> Bool(available)]))

\* An application message, and one the sender numbered.
Data(type, dest, only_first) == Message(type, dest, only_first, NoContent)
NumberedData(type, dest, only_first, id) ==
    Message(type, dest, only_first, Obj([id |-> Num(id)]))

Numbered(msg) == msg.content["id"].t = "number"

Messages(S) == {Frame("message", m) : m \in S}
HeaderRejects == {Frame(k, NoMessage) : k \in {"badformat", "oversize"}}

RECURSIVE Bursts(_, _)
\* What one read finds on the socket: up to n frames of F, all but the last
\* with a header the callback rejects.
Bursts(F, n) ==
    IF n = 1 THEN {<<f>> : f \in F}
    ELSE Bursts(F, n - 1)
         \cup {<<r>> \o w : r \in HeaderRejects \cap F, w \in Bursts(F, n - 1)}

Last(w) == w[Len(w)]

\* Handshakes (an empty team name does not validate) and a message to all.
GateMessages ==
    {ClientHandshake("a"), ClientHandshake(""), Data("x", MSG_ALL, FALSE)}

\* Handshakes of two teams, availability of one type, messages of that type
\* to a team or to all, to one recipient or to every one.
RouteMessages ==
    {ClientHandshake(t) : t \in Teams}
    \cup {AvailableMessage("x", b) : b \in BOOLEAN}
    \cup {Data("x", d, f) : d \in {"a", MSG_ALL}, f \in BOOLEAN}

\* Handshakes of two teams and messages to one of them whose sender left
\* src empty or filled it with either team's name.
SrcMessages ==
    {ClientHandshake(t) : t \in Teams}
    \cup {[Data("x", "b", FALSE) EXCEPT !.src = src] : src \in {""} \cup Teams}

\* A handshake, messages decoded from frames without a type or without a
\* dest, and $$available messages, valid or without content, with or
\* without a dest.
CtlMessages ==
    {ClientHandshake("a"), Data("", MSG_ALL, FALSE), Data("", "", FALSE),
     Data("x", "", FALSE), Data("x", "", TRUE),
     AvailableMessage("x", FALSE), AvailableMessage("x", TRUE),
     Message(MSG_AVAILABLE, "", FALSE, NoContent)}

\* Availability of two types and only_first messages of one of them.
AvailMessages ==
    {ClientHandshake("a")}
    \cup {AvailableMessage(x, b) : x \in Types, b \in BOOLEAN}
    \cup {Data("x", MSG_ALL, TRUE)}

\* The next numbered message to all.
FifoMessages == {NumberedData("x", MSG_ALL, FALSE, nsent + 1)}

\* A handshake and $$available messages without "available", with no
\* dest, to a team and to all, to every recipient or to the first.
InvalidMessages ==
    {Message(MSG_AVAILABLE, d, f, Obj([type |-> Str("x")])) :
        d \in {"", "a", MSG_ALL}, f \in BOOLEAN}

\* Frames ClientHandle::Error is called for: an undecodable body, a
\* rejected header.
ErrFrames == {Frame("unparsable", NoMessage)} \cup HeaderRejects

\* Frames the broker answers with $$error: an $$available without
\* "available", an undecodable body, a rejected header.
ClockFrames ==
    Messages({ClientHandshake("a"),
              Message(MSG_AVAILABLE, "", FALSE, Obj([type |-> Str("x")]))})
    \cup {Frame("unparsable", NoMessage)} \cup HeaderRejects

\* ------------------------------------------------- stream reader, in bytes
\* Server::max_msg_length as the application set it.
max_msg_length == 2

\* A uint32_t from its four bytes.  Values from 2^31 on are taken as
\* 2^31 - 1: every length they are compared with is smaller.
U32(d) ==
    IF d[4] >= 128 THEN 2147483647
    ELSE d[1] + 256 * d[2] + 65536 * d[3] + 16777216 * d[4]

\* The four bytes of a uint32_t.
LE32(n) ==
    <<n % 256, (n \div 256) % 256, (n \div 65536) % 256, (n \div 16777216) % 256>>

\* The messages peers serialise, and the first byte of a body in a format.
Catalogue == <<ClientHandshake("a"), Data("x", MSG_ALL, FALSE)>>
Tag(f) == IF f = JSON THEN 123 ELSE 130

\* json::dump / json::to_msgpack of the k-th message of the catalogue.
Serialise(f, k) == <<Tag(f), k>>

\* Message::Deserialise: the message, or a json::parse_error.
Deserialise(f, data) ==
    IF Len(data) = 2 /\ data[1] = Tag(f) /\ data[2] \in 1..Len(Catalogue)
    THEN [ok |-> TRUE, msg |-> Catalogue[data[2]]]
    ELSE [ok |-> FALSE, msg |-> NoMessage]

\* Message::WriteToStream's bytes for a body: format, length, body.
Encode(f, body) == <<f>> \o LE32(Len(body)) \o body

\* Stream::Await: a new last field of len bytes, its buffer taken from the
\* deleted fields when one is large enough.
Await(s, len) ==
    LET fit == {i \in 1..Len(s.deleted) : s.deleted[i] >= len}
        reusable == CHOOSE i \in fit : \A j \in fit : i <= j
    IN [s EXCEPT
          !.fields = Append(@, [Field(len) EXCEPT
                                  !.cap = IF fit = {} THEN len
                                          ELSE s.deleted[reusable]]),
          !.deleted = IF @ = <<>> THEN @
                      ELSE IF fit = {} THEN Tail(@)
                      ELSE Erase(@, reusable)]

\* Stream::Delete of field i, and Stream::Reset.
Delete(s, i) ==
    [s EXCEPT !.fields = Erase(@, i), !.deleted = Append(@, s.fields[i].cap)]
Reset(s) == [s EXCEPT !.current = 0]

\* The callback of the length field, set by the stream constructor.
HeaderCallback(B, h, dt) ==
    LET s == B.stream[h]
        type == s.fields[1].data[1]
        size == U32(s.fields[2].data)
    IN IF type \notin {JSON, MSGPACK}
       THEN Error([B EXCEPT !.stream[h] = Reset(s)], h, "Invalid message type!", dt)
       ELSE IF size > max_msg_length
       THEN Error([B EXCEPT !.stream[h] = Reset(s)], h, "Buffer size too big!", dt)
       ELSE [B EXCEPT !.stream[h] = Await(s, size)]

\* A reader that asks for the whole field again after a partial read.
Expected_Restart(length, data_offset) == length

\* The bytes Stream::Read asks fread for.
Expected(length, data_offset) == length - data_offset

Min(a, b) == IF a <= b THEN a ELSE b

RECURSIVE Stream_Read(_, _, _)
\* Stream::Read: fill the current field from the bytes at hand; return
\* false when they run out, run the field's callback when it is full, go on
\* with the next field, return true after the last.  Once Error has closed
\* the file the pending fread finds nothing to return.
Stream_Read(B, h, dt) ==
    LET s == B.stream[h]
        cur == IF s.current = 0 THEN 1 ELSE s.current
        f == s.fields[cur]
        expected == Expected(f.length, s.data_offset)
        bytes == SubSeq(B.sock[h], 1, Min(expected, Len(B.sock[h])))
        eof == Len(bytes) < expected /\ peerClosed[h] /\ out[h] = <<>>
        offset == s.data_offset + Len(bytes)
        B1 == [B EXCEPT
                 !.sock[h] = SubSeq(@, Len(bytes) + 1, Len(@)),
                 !.stream[h].current = cur,
                 !.stream[h].fields[cur].data =
                     SubSeq(@, 1, s.data_offset) \o bytes,
                 !.stream[h].status = IF eof THEN "REACHED_EOF" ELSE "OKAY",
                 !.stream[h].data_offset = offset]
    IN IF offset < f.length THEN [B |-> B1, done |-> FALSE]
       ELSE LET B2 == [B1 EXCEPT !.stream[h].data_offset = 0]
                B3 == IF cur = 2 THEN HeaderCallback(B2, h, dt) ELSE B2
            IN IF B3.stream[h].current = 0
               THEN IF B3.handle[h].connected THEN Stream_Read(B3, h, dt)
                    ELSE [B |-> FreadClosed(B3, h), done |-> FALSE]
               ELSE IF cur = Len(B3.stream[h].fields)
               THEN [B |-> B3, done |-> TRUE]
               ELSE Stream_Read([B3 EXCEPT !.stream[h].current = cur + 1], h, dt)

\* ClientHandle::Read over the bytes of the socket.  frames logs the format
\* and body of every completed frame, and whether Stream::Read resumed it
\* inside a field.
ClientHandle_Read(B, h, dt) ==
    LET r == Stream_Read([B EXCEPT !.stream[h].resumed =
                                       @ \/ B.stream[h].data_offset > 0], h, dt)
        s == r.B.stream[h]
    IN IF ~r.done
       THEN IF s.status = "REACHED_EOF"
            THEN [B |-> Disconnect(r.B, h, "Disconnected by server"),
                  result |-> "CONNECTION_ERROR", msg |-> NoMessage]
            ELSE [B |-> r.B, result |-> "INCOMPLETE_MESSAGE", msg |-> NoMessage]
       ELSE LET format == s.fields[1].data[1]
                data == s.fields[3].data
                d == Deserialise(format, data)
                B1 == IF d.ok THEN r.B
                      ELSE Error(r.B, h, "Error parsing message", dt)
                B2 == [B1 EXCEPT
                         !.frames[h] = Append(@, [format |-> format,
                                                  body |-> data,
                                                  resumed |-> s.resumed]),
                         !.stream[h] = [Reset(Delete(s, 3)) EXCEPT
                                          !.resumed = FALSE]]
            IN [B |-> B2, result |-> IF d.ok THEN "OK" ELSE "PARSE_ERROR",
                msg |-> d.msg]

\* ----------------------------------------------------------------- actions
Unused == {h \in Handles : handle[h].conn_type = "NONE"}
NextHandle == CHOOSE h \in Unused : \A g \in Unused : h <= g
StreamHandles == {h \in Handles : handle[h].conn_type \in {"UNIX", "INTERNET"}}

\* The broker's state after a step; the socket of a closed session is gone.
Commit(B) ==
    \E R \in {B} :
        /\ clients' = R.clients
        /\ handle' = R.handle
        /\ client' = R.client
        /\ now' = R.now
        /\ seen' = R.seen
        /\ error_at' = R.error_at
        /\ rejected' = R.rejected
        /\ delivered' = R.delivered
        /\ handled' = R.handled
        /\ left' = R.left
        /\ peerClosed' = [h \in Handles |-> peerClosed[h] /\ R.handle[h].connected]
        /\ stream' = R.stream
        /\ frames' = R.frames
        /\ notices' = R.notices
        /\ unguarded' = R.unguarded
        /\ held_writes' = R.held_writes
        /\ sock' = [h \in Handles |->
                       IF R.handle[h].connected THEN R.sock[h] ELSE <<>>]
        /\ out' = [h \in Handles |->
                      IF R.handle[h].connected THEN out[h] ELSE <<>>]
        /\ sent' = sent
        /\ peer' = R.peer
        /\ again' = R.again
        /\ attempts' = R.attempts
        /\ codec' = codec
        /\ dangling' = R.dangling
        /\ invoked' = R.invoked
        /\ closed_reads' = R.closed_reads
        /\ loop' = R.loop

\* A step of the encoder or decoder alone.
PeerStepKeeping ==
    UNCHANGED <<clients, handle, client, internal_messages,
                read_internal_event, peerClosed, now, nsent, sentBy, seen,
                error_at, rejected, delivered, handled, left, stream, sock,
                out, sent, frames, notices, unguarded, held_writes, loop,
                peer, again, attempts, dangling, invoked, closed_reads>>

\* A step of a peer: the broker's code does not run.
PeerStep ==
    /\ delivered' = [h \in Handles |-> <<>>]
    /\ handled' = <<>>
    /\ left' = <<>>
    /\ unguarded' = {}
    /\ held_writes' = {}
    /\ again' = {}
    /\ attempts' = [h \in Handles |-> <<>>]
    /\ codec' = codec
    /\ dangling' = {}
    /\ invoked' = {}
    /\ closed_reads' = {}
    /\ UNCHANGED <<clients, handle, now, seen, error_at, rejected, stream,
                   frames, notices>>

\* A step of a thread that runs none of the broker's handlers and touches
\* no socket; who names the call if it found nothing left to close.
ThreadStep(who) ==
    /\ delivered' = [h \in Handles |-> <<>>]
    /\ handled' = <<>>
    /\ left' = <<>>
    /\ unguarded' = {}
    /\ held_writes' = {}
    /\ again' = who
    /\ attempts' = [h \in Handles |-> <<>>]
    /\ codec' = codec
    /\ dangling' = {}
    /\ invoked' = {}
    /\ closed_reads' = {}
    /\ UNCHANGED <<clients, handle, now, seen, error_at, rejected, stream,
                   frames, notices, client, internal_messages,
                   read_internal_event, nsent, sentBy, sock, out, sent>>

\* A numbered message is counted and its sender recorded.
Count(msg, sender) ==
    /\ Numbered(msg) => nsent < MaxSends
    /\ nsent' = IF Numbered(msg) THEN nsent + 1 ELSE nsent
    /\ sentBy' = IF Numbered(msg) THEN Append(sentBy, sender) ELSE sentBy

\* The broker and its peers after construction.
Constructed ==
    /\ clients = <<>>
    /\ handle = [h \in Handles |-> NoHandle]
    /\ client = [c \in Clients |->
                    [connected |-> FALSE, server_ptr |-> FALSE, pc |-> "idle",
                     handshake_handler |-> FALSE]]
    /\ internal_messages = <<>>
    /\ read_internal_event = FALSE
    /\ peerClosed = [h \in Handles |-> FALSE]
    /\ now = 1
    /\ nsent = 0
    /\ sentBy = <<>>
    /\ seen = [h \in Handles |-> <<>>]
    /\ error_at = [h \in Handles |-> <<>>]
    /\ rejected = {}
    /\ delivered = [h \in Handles |-> <<>>]
    /\ handled = <<>>
    /\ left = <<>>
    /\ stream = [h \in Handles |-> NoStream]
    /\ sock = [h \in Handles |-> <<>>]
    /\ out = [h \in Handles |-> <<>>]
    /\ sent = [h \in Handles |-> <<>>]
    /\ frames = [h \in Handles |-> <<>>]
    /\ notices = {}
    /\ unguarded = {}
    /\ held_writes = {}
    /\ loop = [state |-> "running", pc |-> "dispatch",
               interrupt_event |-> FALSE, joinable |-> TRUE,
               closer |-> "idle", unix_path |-> TRUE]
    /\ peer = [h \in Handles |-> NoPeer]
    /\ again = {}
    /\ attempts = [h \in Handles |-> <<>>]
    /\ dangling = {}
    /\ invoked = {}
    /\ closed_reads = {}

Init == Constructed /\ codec = NoCodec

\* A Message about to be written in either format.
InitCodec ==
    /\ Constructed
    /\ \E m \in CodecMessages : \E f \in {JSON, MSGPACK} :
           codec = [stage |-> "message", format |-> f, msg |-> m,
                    data |-> <<>>, back |-> DefaultMessage]

\* Message::WriteToStream up to the body: json object = message, then
\* dump or to_msgpack.
WriteToStream_Body ==
    /\ codec.stage = "message"
    /\ codec' = [codec EXCEPT !.stage = "body",
                              !.data = dump(codec.format, to_json(codec.msg))]
    /\ PeerStepKeeping

\* Message::Deserialise of the body.
Deserialise_Body ==
    /\ codec.stage = "body"
    /\ codec' = [codec EXCEPT !.stage = "decoded",
                              !.back = from_json(parse(codec.format, codec.data))]
    /\ PeerStepKeeping

\* Listen, READ_READY, up to Serve: the session of the socket is looked up
\* under the lock.
GetClientBySocket(h) ==
    Servicing(Unlock(Access(Lock(Broker), "lookup")), {h})

\* Server::Listen dispatches events until it returns, one at a time.
Listening == loop.state = "running" /\ loop.pc = "dispatch"

\* The end of Client::UnixConnect and Client::IPConnect at the peer of
\* session h: SetupEvents opened the stream, connected = true, and
\* StartListening started the loop thread.
StartListening(B, h) ==
    [B EXCEPT !.peer[h] = [connected |-> TRUE, file |-> TRUE,
                           listen |-> "running", interrupt_event |-> FALSE,
                           readable |-> FALSE, closer |-> "idle",
                           joinable |-> TRUE, terminate |-> FALSE]]

\* Listen, NEW_CONNECTION: a peer connected on a listening socket.
NewConnection(conn_type) ==
    /\ Listening
    /\ Unused # {}
    /\ Commit(StartListening(
           Unlock(AddConnection(Lock(Broker), NextHandle, conn_type)),
           NextHandle))
    /\ UNCHANGED <<internal_messages, read_internal_event, nsent, sentBy>>

\* The remote peer of stream session h closes its end.
PeerClose(h) ==
    /\ h \in StreamHandles
    /\ handle[h].connected /\ ~peerClosed[h]
    /\ peerClosed' = [peerClosed EXCEPT ![h] = TRUE]
    /\ PeerStep
    /\ UNCHANGED <<client, internal_messages, read_internal_event, nsent,
                   sentBy, sock, out, sent, loop, peer>>

\* Listen, READ_READY: the socket of session h holds the frames w.
ReadReady(h, w, dt) ==
    /\ Listening
    /\ h \in Range(clients) /\ h \in StreamHandles
    /\ handle[h].connected /\ ~peerClosed[h]
    /\ now + dt <= MaxTime
    /\ Count(Last(w).msg, <<"stream", h>>)
    /\ \E who \in MovedFrom(handle[h].teamname) :
           Commit(Serve(GetClientBySocket(h), h,
                        Read(GetClientBySocket(h), h, w, dt), dt, who))
    /\ UNCHANGED <<internal_messages, read_internal_event>>

\* Listen, READ_READY: the socket of session h holds the frames w its peer
\* wrote before it closed its end.
ReadBuffered(h, w, dt) ==
    /\ Listening
    /\ h \in Range(clients) /\ h \in StreamHandles
    /\ handle[h].connected /\ peerClosed[h]
    /\ now + dt <= MaxTime
    /\ Count(Last(w).msg, <<"stream", h>>)
    /\ \E who \in MovedFrom(handle[h].teamname) :
           Commit(Serve(GetClientBySocket(h), h,
                        Read(GetClientBySocket(h), h, w, dt), dt, who))
    /\ UNCHANGED <<internal_messages, read_internal_event>>

\* Listen, READ_READY: the socket of session h is at end of file.
ReadEof(h) ==
    /\ Listening
    /\ h \in Range(clients) /\ h \in StreamHandles
    /\ handle[h].connected /\ peerClosed[h]
    /\ \E who \in MovedFrom(handle[h].teamname) :
           Commit(Serve(GetClientBySocket(h), h,
                        Read(GetClientBySocket(h), h, <<>>, 0), 0, who))
    /\ UNCHANGED <<internal_messages, read_internal_event, nsent, sentBy>>

\* A TIMEOUT branch that closes the session whether it has handshaken or not.
Timeout_Always(h) ==
    /\ Listening
    /\ h \in Range(clients) /\ h \in StreamHandles
    /\ Commit(Disconnect(Servicing(Access(Broker, "lookup"), {h}), h,
                         "Failed handshake"))
    /\ UNCHANGED <<internal_messages, read_internal_event, nsent, sentBy>>

\* Listen, TIMEOUT: nothing arrived on the socket of session h for 60 s.
Timeout(h) ==
    /\ Listening
    /\ h \in Range(clients) /\ h \in StreamHandles
    /\ LET B == Servicing(Access(Broker, "lookup"), {h})
       IN Commit(IF ~handle[h].handshaken
                 THEN Disconnect(B, h, "Failed handshake") ELSE B)
    /\ UNCHANGED <<internal_messages, read_internal_event, nsent, sentBy>>

\* The frames a peer writes: the messages of the catalogue in either
\* format, a body that does not parse, and a frame whose header declares
\* one byte more than max_msg_length.
WireFrames ==
    {[format |-> MSGPACK, body |-> Serialise(MSGPACK, 1)],
     [format |-> JSON, body |-> Serialise(JSON, 2)],
     [format |-> MSGPACK, body |-> <<0>>],
     [format |-> MSGPACK, body |-> Serialise(MSGPACK, 2) \o <<0>>]}

\* Whether the header of frame f passes the header callback.
WellFormed(f) == f.format \in {JSON, MSGPACK} /\ Len(f.body) <= max_msg_length

\* The peer of stream session h writes frame f to its socket.
PeerWrite(h, f) ==
    /\ h \in StreamHandles /\ h <= MaxSenders
    /\ handle[h].connected /\ ~peerClosed[h]
    /\ out[h] = <<>> /\ Len(sent[h]) < MaxFrames
    /\ sent[h] = <<>> => f.body = Serialise(MSGPACK, 1)
    /\ out' = [out EXCEPT ![h] = Encode(f.format, f.body)]
    /\ sent' = [sent EXCEPT ![h] = Append(@, f)]
    /\ PeerStep
    /\ UNCHANGED <<client, internal_messages, read_internal_event, peerClosed,
                   nsent, sentBy, sock, loop, peer>>

\* The next n bytes in flight arrive at the socket of session h.
Arrive(h, n) ==
    /\ n \in 1..Len(out[h])
    /\ sock' = [sock EXCEPT ![h] = @ \o SubSeq(out[h], 1, n)]
    /\ out' = [out EXCEPT ![h] = SubSeq(@, n + 1, Len(@))]
    /\ PeerStep
    /\ UNCHANGED <<client, internal_messages, read_internal_event, peerClosed,
                   nsent, sentBy, sent, loop, peer>>

\* Listen, READ_READY: the socket of session h holds bytes, or is at end of
\* file.
BytesReady(h) ==
    /\ Listening
    /\ h \in Range(clients) /\ h \in StreamHandles
    /\ handle[h].connected
    /\ sock[h] # <<>> \/ (peerClosed[h] /\ out[h] = <<>>)
    /\ \E who \in MovedFrom(handle[h].teamname) :
           Commit(Serve(GetClientBySocket(h), h,
                        ClientHandle_Read(GetClientBySocket(h), h, 0), 0, who))
    /\ UNCHANGED <<internal_messages, read_internal_event, nsent, sentBy>>

\* Client::InternalConnect up to the return of Server::Internal_AddClient.
InternalConnect(c) ==
    /\ ~client[c].connected /\ client[c].pc = "idle"
    /\ Unused # {}
    /\ LET B == [Broker EXCEPT !.thread = "application",
                               !.client[c].server_ptr = TRUE,
                               !.client[c].pc = "handshake"]
       IN Commit(Internal_AddClient(B, c, NextHandle))
    /\ UNCHANGED <<internal_messages, read_internal_event, nsent, sentBy>>

\* Server::Internal_ReceiveFrom
Internal_ReceiveFrom(c, msg) ==
    /\ Len(internal_messages) < MaxQueue
    /\ internal_messages' = Append(internal_messages, <<c, msg>>)
    /\ read_internal_event' = TRUE

\* The rest of Client::InternalConnect: Client::Handshake through
\* Client::Write, then connected = true.
InternalHandshake(c) ==
    /\ client[c].pc = "handshake"
    /\ IF client[c].server_ptr
       THEN /\ Internal_ReceiveFrom(c, ClientHandshake(ClientTeam(c)))
            /\ client' = [client EXCEPT ![c].connected = TRUE, ![c].pc = "idle",
                                        ![c].handshake_handler = TRUE]
       ELSE /\ client' = [client EXCEPT ![c].pc = "idle",
                                        ![c].handshake_handler = TRUE]
            /\ UNCHANGED <<internal_messages, read_internal_event>>
    /\ PeerStep
    /\ UNCHANGED <<peerClosed, nsent, sentBy, sock, out, sent, loop, peer>>

\* Client::Write of an in-process peer.
ClientWrite(c, msg) ==
    /\ client[c].pc = "idle" /\ client[c].server_ptr
    /\ Count(msg, <<"internal", c>>)
    /\ Internal_ReceiveFrom(c, msg)
    /\ PeerStep
    /\ UNCHANGED <<client, peerClosed, sock, out, sent, loop, peer>>

\* A Client::Disconnect that never returns early.
AlreadyDisconnected_Never(connected) == FALSE

\* Client::Disconnect: if (!connected) return;
AlreadyDisconnected(connected) == ~connected

\* Client::Disconnect of an in-process peer.
ClientDisconnect(c) ==
    /\ client[c].pc = "idle"
    /\ LET B == [Broker EXCEPT !.thread = "application",
                               !.client[c].connected = FALSE]
       IN Commit(IF AlreadyDisconnected(client[c].connected)
                 THEN [Broker EXCEPT !.again = {<<"client", c>>}]
                 ELSE IF client[c].server_ptr THEN Internal_RemoveClient(B, c)
                 ELSE B)
    /\ UNCHANGED <<internal_messages, read_internal_event, nsent, sentBy>>

\* Listen, INTERNAL_READ_READY: drain the internal-message queue.
InternalReadReady(dt) ==
    /\ Listening
    /\ read_internal_event
    /\ now + dt <= MaxTime
    /\ read_internal_event' = FALSE
    /\ internal_messages' = <<>>
    /\ Commit(Unlock(HandleInternal(Lock(Broker), internal_messages, dt)))
    /\ UNCHANGED <<nsent, sentBy>>

\* A Listen whose INTERRUPT branch breaks out of the switch only.
Interrupted_Ignored == "running"

\* Listen, INTERRUPT: return.
Interrupted == "returned"

\* Server::Close called on the application thread, up to the join: the
\* interrupt event is activated if the loop thread is joinable, else the
\* call goes on to unlink and returns.
Close ==
    /\ loop.closer = "idle"
    /\ loop' = IF loop.joinable
               THEN [loop EXCEPT !.interrupt_event = TRUE, !.closer = "join"]
               ELSE [loop EXCEPT !.unix_path = FALSE]
    /\ ThreadStep(IF loop.joinable THEN {} ELSE {<<"server", 0>>})
    /\ UNCHANGED <<peerClosed, peer>>

\* Server::Listen, INTERRUPT: LoopInterruptCallback broke the loop and
\* Listen returns.
Listen_Interrupt ==
    /\ Listening /\ loop.interrupt_event
    /\ loop' = [loop EXCEPT !.state = Interrupted, !.interrupt_event = FALSE]
    /\ ThreadStep({})
    /\ UNCHANGED <<peerClosed, peer>>

\* The rest of Server::Close: the join returns once Listen returned, then
\* the socket path is unlinked.
Close_Joined ==
    /\ loop.closer = "join" /\ loop.state = "returned"
    /\ loop' = [loop EXCEPT !.closer = "idle", !.joinable = FALSE,
                            !.unix_path = FALSE]
    /\ ThreadStep({})
    /\ UNCHANGED <<peerClosed, peer>>

\* Client::Disconnect of the socket peer of session h, called on its
\* application thread, up to the join: the interrupt event is activated
\* and the stream closed.
SocketDisconnect(h) ==
    /\ peer[h].listen # "none" /\ peer[h].closer = "idle"
    /\ IF AlreadyDisconnected(peer[h].connected)
       THEN UNCHANGED <<peer, peerClosed>>
       ELSE /\ peer' = [peer EXCEPT ![h].connected = FALSE,
                                    ![h].interrupt_event = TRUE,
                                    ![h].file = FALSE,
                                    ![h].closer = IF peer[h].joinable
                                                  THEN "join" ELSE "idle"]
            /\ peerClosed' = [peerClosed EXCEPT ![h] = handle[h].connected]
    /\ ThreadStep(IF AlreadyDisconnected(peer[h].connected)
                  THEN {<<"peer", h>>} ELSE {})
    /\ UNCHANGED loop

\* The socket of the peer of session h becomes readable: the broker wrote
\* to the session or closed it.
SocketReadable(h) ==
    /\ peer[h].listen = "running" /\ peer[h].connected /\ ~peer[h].readable
    /\ delivered[h] # <<>> \/ ~handle[h].connected
    /\ peer' = [peer EXCEPT ![h].readable = TRUE]
    /\ ThreadStep({})
    /\ UNCHANGED <<peerClosed, loop>>

\* What fread does on a stream another thread has closed.
ClosedStreamReads == {"error", "crash"}

\* Client::Listen, READ_READY, on the loop thread of the peer of session h:
\* Client::Read. Reading the stream after Client::Disconnect closed it on
\* another thread either fails or ends the thread; at end of file Read
\* calls Client::Disconnect on the loop thread, which does not join.
Client_Read(h, fread) ==
    /\ peer[h].listen = "running" /\ peer[h].readable
    /\ peer' =
          IF ~peer[h].file
          THEN IF fread = "crash"
               THEN [peer EXCEPT ![h].listen = "crashed"]
               ELSE [peer EXCEPT ![h].readable = FALSE]
          ELSE IF ~handle[h].connected
          THEN [peer EXCEPT ![h].readable = FALSE, ![h].connected = FALSE,
                            ![h].interrupt_event = TRUE, ![h].file = FALSE]
          ELSE [peer EXCEPT ![h].readable = FALSE]
    /\ ThreadStep({})
    /\ UNCHANGED <<peerClosed, loop>>

\* Client::Listen, INTERRUPT, on the loop thread of the peer of session h.
Client_Interrupt(h) ==
    /\ peer[h].listen = "running" /\ peer[h].interrupt_event
    /\ peer' = [peer EXCEPT ![h].listen = Interrupted,
                            ![h].interrupt_event = FALSE]
    /\ ThreadStep({})
    /\ UNCHANGED <<peerClosed, loop>>

\* The rest of Client::Disconnect: the join returns once Listen returned.
SocketDisconnect_Joined(h) ==
    /\ peer[h].closer = "join" /\ peer[h].listen = "returned"
    /\ peer' = [peer EXCEPT ![h].closer = "idle", ![h].joinable = FALSE]
    /\ ThreadStep({})
    /\ UNCHANGED <<peerClosed, loop>>

\* What ~thread() and thread::operator=(thread&&) find in current_thread.
\* Client::Disconnect returns at "if (!connected) return;" once a
\* Disconnect on the loop thread, which skips the join, has run.
Unjoined(joinable) == joinable

\* ~Client of the socket peer of session h once it is disconnected:
\* Disconnect() returns at once and current_thread is destroyed.
Client_Destructor(h) ==
    /\ peer[h].listen \notin {"none", "running"} /\ peer[h].closer = "idle"
    /\ ~peer[h].connected /\ ~peer[h].terminate
    /\ peer' = [peer EXCEPT ![h] = [NoPeer EXCEPT
                    !.terminate = Unjoined(peer[h].joinable)]]
    /\ ThreadStep({})
    /\ UNCHANGED <<peerClosed, loop>>

\* Client::UnixConnect of the disconnected socket peer of session g, whose
\* loop thread has returned: the broker accepts a new session for it and
\* StartListening assigns the new loop thread to current_thread.
Client_Reconnect(g) ==
    /\ Listening
    /\ Unused # {}
    /\ peer[g].listen = "returned" /\ peer[g].closer = "idle"
    /\ ~peer[g].connected /\ ~peer[g].terminate
    /\ LET B == StartListening(
                    Unlock(AddConnection(Lock(Broker), NextHandle, "UNIX")),
                    NextHandle)
       IN Commit([B EXCEPT
              !.peer[NextHandle].terminate = Unjoined(peer[g].joinable),
              !.peer[g] = NoPeer])
    /\ UNCHANGED <<internal_messages, read_internal_event, nsent, sentBy>>

\* Listen, INTERNAL_READ_READY, step by step.  InternalReadCallback has
\* run: libevent deactivated the event, which is not persistent.
InternalRead_Callback ==
    /\ Listening /\ read_internal_event
    /\ read_internal_event' = FALSE
    /\ loop' = [loop EXCEPT !.pc = "event_del"]
    /\ PeerStep
    /\ UNCHANGED <<client, internal_messages, peerClosed, nsent, sentBy,
                   sock, out, sent, peer>>

\* event_del(read_internal_event): an activation made since the callback
\* is cancelled.
InternalRead_EventDel ==
    /\ loop.state = "running" /\ loop.pc = "event_del"
    /\ read_internal_event' = FALSE
    /\ loop' = [loop EXCEPT !.pc = "drain"]
    /\ PeerStep
    /\ UNCHANGED <<client, internal_messages, peerClosed, nsent, sentBy,
                   sock, out, sent, peer>>

\* The queue is moved out under internal_mutex and every entry handled
\* under clients_mutex.
InternalRead_Drain ==
    /\ loop.state = "running" /\ loop.pc = "drain"
    /\ internal_messages' = <<>>
    /\ Commit(Unlock(HandleInternal(
           Lock([Broker EXCEPT !.loop.pc = "dispatch"]), internal_messages, 0)))
    /\ UNCHANGED <<read_internal_event, nsent, sentBy>>

\* A wall-clock second passes.
Tick ==
    /\ now < MaxTime
    /\ now' = now + 1
    /\ delivered' = [h \in Handles |-> <<>>]
    /\ handled' = <<>>
    /\ left' = <<>>
    /\ unguarded' = {}
    /\ held_writes' = {}
    /\ again' = {}
    /\ attempts' = [h \in Handles |-> <<>>]
    /\ codec' = codec
    /\ dangling' = {}
    /\ invoked' = {}
    /\ closed_reads' = {}
    /\ UNCHANGED <<clients, handle, client, internal_messages,
                   read_internal_event, peerClosed, nsent, sentBy, seen,
                   error_at, rejected, stream, sock, out, sent, frames, notices,
                   loop, peer>>

\* The clock's origin moves one second on: Error compares readings of the
\* clock only with each other, so every recorded reading is one less, and
\* the $$error times that fall before the origin are forgotten.
Rebase ==
    /\ now = MaxTime
    /\ now' = now - 1
    /\ handle' = [h \in Handles |->
                     [handle[h] EXCEPT !.last_error =
                                          IF @ > 0 THEN @ - 1 ELSE 0]]
    /\ error_at' = [h \in Handles |->
                       LET Kept(t) == t > 1
                           shifted == SelectSeq(error_at[h], Kept)
                       IN [i \in 1..Len(shifted) |-> shifted[i] - 1]]
    /\ delivered' = [h \in Handles |-> <<>>]
    /\ handled' = <<>>
    /\ left' = <<>>
    /\ unguarded' = {}
    /\ held_writes' = {}
    /\ again' = {}
    /\ attempts' = [h \in Handles |-> <<>>]
    /\ codec' = codec
    /\ dangling' = {}
    /\ invoked' = {}
    /\ closed_reads' = {}
    /\ UNCHANGED <<clients, client, internal_messages, read_internal_event,
                   peerClosed, nsent, sentBy, seen, rejected, stream, sock,
                   out, sent, frames, notices, loop, peer>>

\* ---------------------------------------------------------- specifications
\* Stream sessions and an in-process peer around the handshake gate.
Next ==
    \/ NewConnection("UNIX")
    \/ \E h \in Handles : PeerClose(h)
    \/ \E h \in Handles : \E f \in Messages(GateMessages) : ReadReady(h, <<f>>, 0)
    \/ \E h \in Handles : ReadEof(h)
    \/ \E h \in Handles : Timeout(h)
    \/ \E c \in Clients : InternalConnect(c)
    \/ \E c \in Clients : InternalHandshake(c)
    \/ \E c \in Clients : ClientWrite(c, Data("x", MSG_ALL, FALSE))
    \/ \E c \in Clients : ClientDisconnect(c)
    \/ InternalReadReady(0)

Spec == Init /\ [][Next]_vars

\* Stream sessions of two teams routing to each other.
NextRoute ==
    \/ NewConnection("UNIX")
    \/ \E h \in Handles : PeerClose(h)
    \/ \E h \in Handles : \E f \in Messages(RouteMessages) : ReadReady(h, <<f>>, 0)
    \/ \E h \in Handles : ReadEof(h)
    \/ \E h \in Handles : Timeout(h)

SpecRoute == Init /\ [][NextRoute]_vars

\* Stream sessions toggling their availability for two types.
NextAvail ==
    \/ NewConnection("UNIX")
    \/ \E h \in Handles : \E f \in Messages(AvailMessages) : ReadReady(h, <<f>>, 0)

SpecAvail == Init /\ [][NextAvail]_vars

\* Numbered messages from stream sessions and from an in-process peer.
NextFifo ==
    \/ NewConnection("UNIX")
    \/ \E h \in Handles :
          \E f \in Messages({ClientHandshake("a")} \cup FifoMessages) :
              ReadReady(h, <<f>>, 0)
    \/ \E c \in Clients : InternalConnect(c)
    \/ \E c \in Clients : InternalHandshake(c)
    \/ \E c \in Clients : \E m \in FifoMessages : ClientWrite(c, m)
    \/ \E c \in Clients : ClientDisconnect(c)
    \/ InternalReadReady(0)

SpecFifo == Init /\ [][NextFifo]_vars

\* Stream sessions sending malformed frames while the clock runs.
NextClock ==
    \/ \E t \in {"UNIX", "INTERNET"} :
          Cardinality(Unused) > MaxHandles - ClockHandles /\ NewConnection(t)
    \/ \E h \in Handles : PeerClose(h)
    \/ \E h \in Handles : \E w \in Bursts(ClockFrames, MaxBurst) :
          \E dt \in {0, 1} : ReadReady(h, w, dt)
    \/ \E h \in Handles : ReadEof(h)
    \/ Tick

SpecClock == Init /\ [][NextClock]_vars

\* Stream sessions, with the broker's loop dispatching every pending event.
NextFair ==
    \/ Cardinality(Unused) > MaxHandles - FairHandles /\ NewConnection("INTERNET")
    \/ \E h \in Handles : PeerClose(h)
    \/ \E h \in Handles : \E f \in Messages(GateMessages) : ReadReady(h, <<f>>, 0)
    \/ \E h \in Handles : ReadEof(h)
    \/ \E h \in Handles : Timeout(h)

SpecFair ==
    /\ Init /\ [][NextFair]_vars
    /\ \A h \in Handles : WF_vars(ReadEof(h)) /\ WF_vars(Timeout(h))

\* A peer writing frames byte by byte next to a session that only listens.
NextBytes ==
    \/ Cardinality(Unused) > MaxHandles - ByteHandles /\ NewConnection("UNIX")
    \/ \E h \in Handles : \E f \in WireFrames :
          Cardinality(Unused) = MaxHandles - ByteHandles /\ PeerWrite(h, f)
    \/ \E h \in Handles : \E n \in 1..8 : Arrive(h, n)
    \/ \E h \in Handles : BytesReady(h)

SpecBytes == Init /\ [][NextBytes]_vars

\* Stream sessions whose peers close while the broker closes; every loop
\* thread dispatches its pending events and every join returns once its
\* thread has.
NextCancel ==
    \/ /\ Cardinality(Unused) > MaxHandles - CancelHandles
       /\ peer[NextHandle] = NoPeer
       /\ NewConnection("UNIX")
    \/ \E h \in Handles : ReadReady(h, <<Frame("message",
                                          ClientHandshake("a"))>>, 0)
    \/ \E h \in Handles : ReadEof(h)
    \/ Close
    \/ Listen_Interrupt
    \/ Close_Joined
    \/ \E h \in Handles : SocketDisconnect(h)
    \/ \E h \in Handles : SocketReadable(h)
    \/ \E h \in Handles : \E r \in ClosedStreamReads : Client_Read(h, r)
    \/ \E h \in Handles : Client_Interrupt(h)
    \/ \E h \in Handles : SocketDisconnect_Joined(h)

SpecCancel ==
    /\ Init /\ [][NextCancel]_vars
    /\ WF_vars(Listen_Interrupt) /\ WF_vars(Close_Joined)
    /\ \A h \in Handles :
          /\ WF_vars(\E r \in ClosedStreamReads : Client_Read(h, r))
          /\ WF_vars(Client_Interrupt(h))
          /\ WF_vars(SocketDisconnect_Joined(h))

\* One stream session and an in-process peer, each closing more than once
\* while the broker closes more than once.
NextClose ==
    \/ (\A h \in Handles : peer[h] = NoPeer) /\ NewConnection("UNIX")
    \/ \E h \in Handles : \E f \in Messages(GateMessages) : ReadReady(h, <<f>>, 0)
    \/ \E h \in Handles : ReadEof(h)
    \/ \E c \in Clients : InternalConnect(c)
    \/ \E c \in Clients : InternalHandshake(c)
    \/ \E c \in Clients : ClientDisconnect(c)
    \/ InternalReadReady(0)
    \/ Close
    \/ Listen_Interrupt
    \/ Close_Joined
    \/ \E h \in Handles : SocketDisconnect(h)
    \/ \E h \in Handles : SocketReadable(h)
    \/ \E h \in Handles : \E r \in ClosedStreamReads : Client_Read(h, r)
    \/ \E h \in Handles : Client_Interrupt(h)
    \/ \E h \in Handles : SocketDisconnect_Joined(h)

SpecClose == Init /\ [][NextClose]_vars

\* Stream sessions and an in-process peer of two teams whose messages
\* name a source of their own.
NextSrc ==
    \/ Cardinality(Unused) > MaxHandles - SrcHandles /\ NewConnection("INTERNET")
    \/ \E h \in Handles : \E f \in Messages(SrcMessages) : ReadReady(h, <<f>>, 0)
    \/ \E c \in Clients : InternalConnect(c)
    \/ \E c \in Clients : InternalHandshake(c)
    \/ \E c \in Clients : \E m \in SrcMessages : ClientWrite(c, m)
    \/ InternalReadReady(0)

SpecSrc == Init /\ [][NextSrc]_vars

\* Stream sessions that send handshake after handshake, each declaring
\* other values, and leave.
NextShake ==
    \/ Cardinality(Unused) > MaxHandles - ShakeHandles /\ NewConnection("UNIX")
    \/ \E h \in Handles : \E f \in Messages(ShakeMessages) : ReadReady(h, <<f>>, 0)
    \/ \E h \in Handles : PeerClose(h)
    \/ \E h \in Handles : ReadEof(h)

SpecShake == Init /\ [][NextShake]_vars

\* Stream sessions whose peers send frames the reader rejects, before and
\* after their handshake, and may close with frames still unread.
NextErr ==
    \/ Cardinality(Unused) > MaxHandles - ErrHandles /\ NewConnection("UNIX")
    \/ \E h \in Handles : PeerClose(h)
    \/ \E h \in Handles : \E f \in ErrFrames \cup Messages({ClientHandshake("a")}) :
          \E dt \in {0, 1} : ReadReady(h, <<f>>, dt)
    \/ \E h \in Handles : \E f \in ErrFrames \cup Messages({ClientHandshake("a")}) :
          \E dt \in {0, 1} : ReadBuffered(h, <<f>>, dt)
    \/ \E h \in Handles : ReadEof(h)
    \/ Tick

SpecErr == Init /\ [][NextErr]_vars

\* Socket clients whose sessions the broker closes for a missing
\* handshake, and which disconnect, are destroyed or connect again.
NextJoin ==
    \/ Cardinality(Unused) > MaxHandles - JoinHandles /\ NewConnection("UNIX")
    \/ \E h \in Handles : Timeout(h)
    \/ \E h \in Handles : SocketDisconnect(h)
    \/ \E h \in Handles : SocketReadable(h)
    \/ \E h \in Handles : \E r \in ClosedStreamReads : Client_Read(h, r)
    \/ \E h \in Handles : Client_Interrupt(h)
    \/ \E h \in Handles : SocketDisconnect_Joined(h)
    \/ \E h \in Handles : ReadEof(h)
    \/ \E h \in Handles : Client_Destructor(h)
    \/ \E h \in Handles :
          Cardinality(Unused) > MaxHandles - JoinHandles /\ Client_Reconnect(h)

SpecJoin == Init /\ [][NextJoin]_vars

\* Stream sessions of one team that send $$available messages the broker
\* rejects, while the clock runs and peers close with frames still unread.
NextInvalid ==
    \/ Cardinality(Unused) > MaxHandles - InvalidHandles /\ NewConnection("UNIX")
    \/ \E h \in Handles : PeerClose(h)
    \/ \E h \in Handles :
          \E m \in InvalidMessages \cup {ClientHandshake("a")} : \E dt \in {0, 1} :
             ReadReady(h, <<Frame("message", m)>>, dt)
    \/ \E h \in Handles : \E m \in InvalidMessages : \E dt \in {0, 1} :
          ReadBuffered(h, <<Frame("message", m)>>, dt)
    \/ \E h \in Handles : ReadEof(h)
    \/ Tick

SpecInvalid == Init /\ [][NextInvalid]_vars

\* Stream sessions sending control-only and malformed messages while the
\* clock runs.
NextCtl ==
    \/ Cardinality(Unused) > MaxHandles - CtlHandles /\ NewConnection("UNIX")
    \/ \E h \in Handles : \E f \in Messages(CtlMessages) :
          \E dt \in {0, 1} : ReadReady(h, <<f>>, dt)
    \/ \E h \in Handles : PeerClose(h)
    \/ Tick

SpecCtl == Init /\ [][NextCtl]_vars

\* An in-process peer writing numbered messages on its application thread,
\* each while it is connected and its session in the table, while the loop
\* goes through INTERNAL_READ_READY step by step and dispatches every
\* pending event.
NextQueue ==
    \/ Cardinality(Unused) = MaxHandles /\ NewConnection("UNIX")
    \/ \E c \in Clients : InternalConnect(c)
    \/ \E c \in Clients : InternalHandshake(c)
    \/ \E c \in Clients : \E m \in FifoMessages :
          client[c].connected /\ ClientWrite(c, m)
    \/ \E c \in Clients : ClientDisconnect(c)
    \/ InternalRead_Callback
    \/ InternalRead_EventDel
    \/ InternalRead_Drain

\* A Message of any shape is encoded and the body decoded again.
NextCodec == WriteToStream_Body \/ Deserialise_Body

SpecCodec == InitCodec /\ [][NextCodec]_vars

SpecQueue ==
    /\ Init /\ [][NextQueue]_vars
    /\ WF_vars(InternalRead_Callback) /\ WF_vars(InternalRead_EventDel)
    /\ \/ []<>(~(loop.state = "running" /\ loop.pc = "drain"))
       \/ []<><<InternalRead_Drain>>_vars

\* Stream sessions whose peers keep sending frames that declare too many
\* bytes: a second passes only once every handshaken session has been
\* read such a frame in it, so each second sees one at least.
NextRate ==
    \/ Cardinality(Unused) > MaxHandles - RateHandles /\ NewConnection("INTERNET")
    \/ \E h \in Handles :
          ReadReady(h, <<Frame("message", ClientHandshake("a"))>>, 0)
    \/ \E h \in Handles : ReadReady(h, <<Frame("oversize", NoMessage)>>, 0)
    \/ /\ \A h \in Range(clients) :
             (handle[h].connected /\ handle[h].handshaken) =>
                 handle[h].last_error = now
       /\ Tick
    \/ Rebase

\* The loop can read session h.
Readable(h) ==
    /\ Listening
    /\ h \in Range(clients) /\ h \in StreamHandles
    /\ handle[h].connected /\ ~peerClosed[h]

\* Seconds keep passing, and the peer of a session the loop can read keeps
\* sending: the last conjunct is weak fairness of the read of an oversize
\* frame, with its enabling condition written out.
SpecRate ==
    /\ Init /\ [][NextRate]_vars
    /\ WF_vars(Tick) /\ WF_vars(Rebase)
    /\ \A h \in Handles :
          \/ []<>(~Readable(h))
          \/ []<><<ReadReady(h, <<Frame("oversize", NoMessage)>>, 0)>>_vars

\* ------------------------------------------------------------------ claims
Table == Range(clients)
Entries == {handled[i] : i \in 1..Len(handled)}
Got(h, msg) == \E k \in 1..Len(delivered[h]) : delivered[h][k] = msg

\* Table positions of the non-sender sessions entry e's dest matches, and
\* those of them available for the type of its message.
Matching(e) ==
    {i \in 1..Len(e.table) :
        /\ e.table[i] # e.sender
        /\ e.msg.dest = MSG_ALL \/ e.team[e.table[i]] = e.msg.dest}
AvailableAt(e) == {i \in Matching(e) : e.msg.type \notin e.unavailable[e.table[i]]}
Earliest(P) == CHOOSE i \in P : \A j \in P : i <= j
Latest(P) == CHOOSE i \in P : \A j \in P : i >= j

\* C1: a session the handshake gate rejected is closed and stays not
\* handshaken, and no message from it is routed afterwards.
C1_HandshakeGate ==
    \A h \in rejected :
        /\ ~handle[h].connected
        /\ ~handle[h].handshaken
        /\ \A e \in Entries : e.sender # h

\* C2: a message with only_first = false and a non-empty dest is written to
\* exactly the sessions of the table other than the sender whose team is
\* dest (all of them for $$all), once each; every one of them still open
\* has it, and no other session has it.
C2_TeamRouting ==
    \A e \in Entries :
        (~e.msg.only_first /\ e.msg.dest # "") =>
            /\ Range(e.written) = {e.table[i] : i \in Matching(e)}
            /\ Len(e.written) = Cardinality(Range(e.written))
            /\ e.sender \notin Range(e.written)
            /\ \A h \in Handles :
                  /\ Got(h, e.msg) => h \in Range(e.written)
                  /\ (h \in Range(e.written) /\ handle[h].connected) => Got(h, e.msg)

\* A message to team "a" from a member of "a" reached another member while
\* a session of another team was in the table.
C2_Witness ==
    \E e \in Entries :
        /\ ~e.msg.only_first /\ e.msg.dest = "a" /\ e.team[e.sender] = "a"
        /\ \E h \in Range(e.written) : Got(h, e.msg)
        /\ \E h \in Range(e.table) : e.team[h] = "b"

\* C3: an only_first message with an available matching session is
\* delivered to the earliest of them in the table and to nobody else;
\* granted: that session's peer may have gone, or no available matching
\* session may be open at all.
C3_OnlyFirst ==
    \A e \in Entries :
        (e.msg.only_first /\ e.msg.dest # "" /\ AvailableAt(e) # {}) =>
            LET first == e.table[Earliest(AvailableAt(e))] IN
            \/ e.ok = {first} /\ \A h \in Handles : Got(h, e.msg) => h = first
            \/ first \in e.open /\ first \in e.peer_closed
            \/ \A i \in AvailableAt(e) : e.table[i] \notin e.open

\* C4: an only_first message whose matching sessions are all unavailable is
\* delivered to the last of them in the table, and to nobody when nothing
\* matches; granted: that session's peer may have gone, or no matching
\* session may be open at all.
C4_FallBack ==
    \A e \in Entries :
        (e.msg.only_first /\ e.msg.dest # "" /\ AvailableAt(e) = {}) =>
            IF Matching(e) = {} THEN e.written = <<>> /\ e.ok = {}
            ELSE LET last == e.table[Latest(Matching(e))] IN
                 \/ e.ok = {last}
                 \/ last \in e.open /\ last \in e.peer_closed
                 \/ \A i \in Matching(e) : e.table[i] \notin e.open

\* C5: once $$available {type: x, available: true} of a session is
\* handled, x is not in its unavailable list, the list's other types are
\* as before, and GetFirstAvailable finds the session available for x.
C5_AvailabilityToggle ==
    \A e \in Entries :
        (e.msg.type = MSG_AVAILABLE /\ e.msg.content["available"].b) =>
            LET x == e.msg.content["type"].s IN
            /\ x \notin Range(handle[e.sender].unavailable)
            /\ Range(handle[e.sender].unavailable) = Range(e.was) \ {x}
            /\ Available(Broker, e.sender, x)

\* available: true for x arrived at a session that had x, after another
\* type, in its unavailable list.
C5_Witness ==
    \E e \in Entries :
        /\ e.msg.type = MSG_AVAILABLE /\ e.msg.content["available"].b
        /\ e.msg.content["type"].s = "x"
        /\ e.was = <<"y", "x">>
        /\ handle[e.sender].unavailable = <<"y">>

\* C6: when a session leaves the table, every open session of the table
\* has exactly one $$disconnect whose who is the team the session had.
C6_DisconnectBroadcast ==
    \A i \in 1..Len(left) : \A h \in Table :
        handle[h].connected =>
            Cardinality({k \in 1..Len(delivered[h]) :
                            delivered[h][k] = DisconnectNotice(left[i].team)}) = 1

\* C7: a closed session of the table is eventually removed from it.
C7_ClosedRemoved ==
    \A h \in Handles :
        (h \in Table /\ ~handle[h].connected) ~> (h \notin Table)

\* C8: a recipient has the numbered messages of one sender in the order
\* the sender sent them.
C8_Fifo ==
    \A r \in Handles : \A i, j \in 1..Len(seen[r]) :
        (i < j /\ sentBy[seen[r][i]] = sentBy[seen[r][j]]) =>
            seen[r][i] < seen[r][j]

\* A stream session that had a message of another stream session has two
\* messages of the in-process peer, drained from the queue in one step.
C8_Witness ==
    \E r \in StreamHandles :
        /\ Len(delivered[r]) = 2
        /\ \A k \in 1..2 :
              /\ Numbered(delivered[r][k])
              /\ sentBy[delivered[r][k].content["id"].n] = <<"internal", 1>>
        /\ \E i \in 1..Len(seen[r]) : sentBy[seen[r][i]][1] = "stream"

\* C9: when the $$disconnect for an in-process peer reaches a session, no
\* message of that peer addressed to the session is still in the queue.
C9_DisconnectOrdering ==
    \A i \in 1..Len(left) : \A r \in Table :
        (/\ left[i].client_ptr # NULL
         /\ handle[r].connected
         /\ Got(r, DisconnectNotice(left[i].team))) =>
            \A q \in 1..Len(internal_messages) :
                ~ /\ internal_messages[q][1] = left[i].client_ptr
                  /\ internal_messages[q][2].dest \in {MSG_ALL, handle[r].teamname}

\* C10: the stamps of any two $$error replies to one session differ by at
\* least one second.
C10_ErrorRateLimit ==
    \A h \in Handles : \A i, j \in 1..Len(error_at[h]) :
        i < j => error_at[h][j] - error_at[h][i] >= 1

\* A session that is still open was sent two $$error replies.
C10_Witness ==
    \E h \in Handles : Len(error_at[h]) >= 2 /\ handle[h].connected

\* The format and body of the frames of log s, and the frames of s whose
\* header the header callback accepts.
Frames(s) == [i \in 1..Len(s) |-> [format |-> s[i].format, body |-> s[i].body]]
Accepted(s) == SelectSeq(s, WellFormed)
Oversize(s) == {i \in 1..Len(s) : Len(s[i].body) > max_msg_length}
Unparsable(s) == {i \in 1..Len(s) : ~Deserialise(s[i].format, s[i].body).ok}
IsPrefix(s, u) == Len(s) <= Len(u) /\ s = SubSeq(u, 1, Len(s))

\* C11: a handshaken session whose peer wrote a frame declaring more than
\* max_msg_length, and no other frame the broker answers with $$error, was
\* sent one $$error and is still connected; once the broker has read all
\* the peer wrote, Read has completed every frame with an accepted header.
C11_OversizeRejection ==
    \A h \in StreamHandles :
        (/\ handle[h].handshaken
         /\ Oversize(sent[h]) # {} /\ Unparsable(sent[h]) \subseteq Oversize(sent[h])
         /\ Cardinality(Oversize(sent[h])) = 1
         /\ out[h] = <<>> /\ sock[h] = <<>>) =>
            /\ handle[h].connected
            /\ Len(error_at[h]) = 1
            /\ Frames(frames[h]) = Frames(Accepted(sent[h]))

\* C12: the frames Read has completed are the first of the frames the peer
\* wrote, with their format and body, and all of them once the broker has
\* read every byte, however the bytes arrived - when every header is one
\* the header callback accepts.
C12_ReaderResumable ==
    \A h \in StreamHandles :
        (\A i \in 1..Len(sent[h]) : WellFormed(sent[h][i])) =>
            /\ IsPrefix(Frames(frames[h]), Frames(sent[h]))
            /\ (out[h] = <<>> /\ sock[h] = <<>>) =>
                   Frames(frames[h]) = Frames(sent[h])

\* Read completed three frames, the last two resumed inside a field.
C12_Witness ==
    \E h \in StreamHandles :
        /\ Len(frames[h]) = MaxFrames
        /\ Frames(frames[h]) = Frames(sent[h])
        /\ frames[h][2].resumed /\ frames[h][3].resumed
        /\ frames[h][2].format # frames[h][3].format

\* C13: the $$disconnect a session is sent for a departed in-process peer
\* and the one it is sent for a departed socket peer of the same team name
\* the same who.
C13_TransportEquivalence ==
    \A n1, n2 \in notices :
        (n1.internal /\ ~n2.internal /\ n1.team = n2.team) => n1.who = n2.who

FailedHandshake ==
    Message(MSG_DISCONNECT, "", FALSE,
            Obj([reason |-> Str("Failed handshake"), who |-> Str(MSG_YOU)]))

\* C14: the read timeout of a session that has not handshaken leaves it
\* closed, after a $$disconnect with reason "Failed handshake" when it was
\* open and its peer there; the read timeout of a handshaken session
\* changes nothing of the session and writes nothing to it.
C14_HandshakeTimeout ==
    [][\A h \in Handles :
          Timeout(h) =>
              IF ~handle[h].handshaken
              THEN /\ ~handle'[h].connected
                   /\ (handle[h].connected /\ ~peerClosed[h]) =>
                          delivered'[h] = <<FailedHandshake>>
                   /\ clients' = clients
              ELSE /\ handle'[h] = handle[h]
                   /\ stream'[h] = stream[h]
                   /\ delivered'[h] = <<>>
                   /\ clients' = clients]_vars

\* A session the timeout closed before its handshake is in the table, and
\* so is an open session that has handshaken.
C14_Witness ==
    /\ \E h \in Table \cap StreamHandles :
          /\ ~handle[h].connected /\ ~handle[h].handshaken
          /\ h \notin rejected
          /\ delivered[h] = <<FailedHandshake>>
    /\ \E h \in Table \cap StreamHandles :
          handle[h].connected /\ handle[h].handshaken

\* C15: no handler inserts into, erases from, looks up in or iterates over
\* Server::clients while its thread does not hold clients_mutex.
C15_TableUnderLock == unguarded = {}

\* C16: no handler writes to a session other than those it services while
\* its thread holds clients_mutex.
C16_NoWriteUnderLock == held_writes = {}


\* C17: once Server::Close, or Client::Disconnect on a socket peer, waits
\* in its join on a thread other than the loop thread, the loop thread
\* eventually returns from Listen and the join completes.
C17_Cancellation ==
    /\ (loop.closer = "join") ~>
           (loop.closer = "idle" /\ loop.state = "returned")
    /\ \A h \in Handles :
           (peer[h].closer = "join") ~>
               (peer[h].closer = "idle" /\ peer[h].listen = "returned")

\* A call of Server::Close or Client::Disconnect that found nothing left
\* to close leaves the sessions, the peers, both ends of every socket and
\* every thread as they were, writes to no session and waits in no join.
NoFurtherEffect ==
    /\ UNCHANGED <<clients, handle, client, internal_messages,
                   read_internal_event, peerClosed, peer, stream, sock, out,
                   notices>>
    /\ loop' = [loop EXCEPT !.unix_path = loop'.unix_path]
    /\ \A h \in Handles : delivered'[h] = <<>>
    /\ left' = <<>>

\* C18: a second Server::Close (the loop thread is joined already) and a
\* second Client::Disconnect (the peer is not connected), called on an
\* application thread, join nothing, close no stream, erase no session,
\* broadcast no $$disconnect, and return.
C18_CloseIdempotent ==
    [][/\ Close /\ ~loop.joinable => NoFurtherEffect
       /\ \A c \in Clients :
             ClientDisconnect(c) /\ ~client[c].connected => NoFurtherEffect
       /\ \A h \in Handles :
             SocketDisconnect(h) /\ ~peer[h].connected => NoFurtherEffect]_vars

\* An in-process peer whose Disconnect was broadcast to the sessions still
\* in the table has just called Disconnect again.
C18_Witness ==
    /\ \E c \in Clients : again = {<<"client", c>>} /\ ~client[c].connected
    /\ \E h \in Range(clients) : handle[h].connected
    /\ notices # {}

\* C19: every message with a destination that a session was written is
\* a message HandleMessage routed in that step, carrying as src the team
\* name the broker held for its sender, whatever src the sender gave it.
C19_SrcIsSenderTeam ==
    \A h \in Handles : \A k \in 1..Len(delivered[h]) :
        delivered[h][k].dest # "" =>
            \E e \in Entries :
                /\ h \in e.ok
                /\ delivered[h][k] = [e.msg EXCEPT !.src = e.team[e.sender]]

\* A session of team a named team b as the source of a message to team b,
\* and a session of team b was written it with a as its source.
C19_Witness ==
    \E e \in Entries : \E h \in e.ok :
        /\ e.src = "b" /\ e.team[e.sender] = "a" /\ e.team[h] = "b"
        /\ e.msg.dest = "b"
        /\ Got(h, [e.msg EXCEPT !.src = "a"])

\* A message HandleMessage routes, or a $$disconnect notice Broadcast sends.
RoutedOrBroadcast(msg) ==
    \/ msg.dest # ""
    \/ msg.type = MSG_DISCONNECT /\ msg.content["who"] # Str(MSG_YOU)

\* The first message of the last step whose write to session h failed.
FirstFailed(h) == attempts[h][Len(delivered[h]) + 1]

\* C20: when the write of a routed or broadcast message to a recipient
\* fails, the recipient is closed and no further message is taken to its
\* stream, so no $$disconnect either; and no message is taken to the
\* stream or the in-process peer of a session that is closed.
C20_FailedWriteCloses ==
    /\ \A h \in Handles :
          (Len(attempts[h]) > Len(delivered[h])
           /\ RoutedOrBroadcast(FirstFailed(h))) =>
              /\ Len(attempts[h]) = Len(delivered[h]) + 1
              /\ ~handle[h].connected
    /\ \A h \in Handles : \A e \in Entries :
          (h \in Range(e.written) /\ h \notin e.open) =>
              /\ ~Got(h, e.msg)
              /\ \A k \in 1..Len(attempts[h]) : attempts[h][k] # e.msg

\* A recipient whose peer had closed its socket was routed a message next
\* to a recipient that got it: the write failed, that message alone was
\* taken to its stream, and the session is closed now.
C20_Witness ==
    \E e \in Entries : \E h \in Range(e.written) :
        /\ h \in e.open /\ h \in e.peer_closed /\ h \notin e.ok
        /\ attempts[h] = <<e.msg>> /\ delivered[h] = <<>>
        /\ ~handle[h].connected
        /\ e.ok # {}

\* C21: a message without a type from a handshaken session is routed to no
\* session, and its sender is written a $$error unless the rate limit
\* suppresses it.
C21_NoTypeDropped ==
    \A e \in Entries :
        e.msg.type = "" =>
            /\ \A h \in Handles : ~Got(h, e.msg)
            /\ \/ \E k \in 1..Len(delivered[e.sender]) :
                      delivered[e.sender][k].type = MSG_ERROR
               \/ handle[e.sender].last_error = now

\* C22: a handshaken session that keeps sending oversize frames, one a
\* second or more, is eventually disconnected.
C22_StormDisconnects ==
    \A h \in Handles :
        (handle[h].handshaken /\ handle[h].connected) ~> ~handle[h].connected

\* C23: a session whose handshake the broker rejected is closed, and the
\* rejecting step wrote it no frame: no $$disconnect and no $$error.
C23_RejectionSilent ==
    \A h \in rejected :
        ~handle[h].connected => delivered[h] = <<>>

\* The numbered message i waits in the internal-message queue.
Queued(i) ==
    \E q \in 1..Len(internal_messages) :
        internal_messages[q][2].content["id"] = Num(i)

\* HandleMessage was passed the numbered message i in the last step.
Passed(i) == \E e \in Entries : e.msg.content["id"] = Num(i)

\* C24: every message an in-process peer enqueued is eventually passed to
\* HandleMessage, and the messages one drain passes are passed once each,
\* in enqueue order.
C24_QueueDelivery ==
    /\ \A i \in 1..MaxSends : Queued(i) ~> Passed(i)
    /\ [](\A j, k \in 1..Len(handled) :
             (j < k /\ Numbered(handled[j].msg) /\ Numbered(handled[k].msg)) =>
                 handled[j].msg.content["id"].n < handled[k].msg.content["id"].n)

\* C25: no step of the broker reads through a ClientHandle pointer after
\* the handle it pointed to was erased from the table and destroyed.
C25_NoUseAfterFree == dangling = {}

\* C26: every Client::HandleMessage of an in-process peer, and so every
\* handler the application registered on it, runs on the broker's loop
\* thread.
C26_HandlersOnLoop == \A e \in invoked : e.thread = "loop"

\* C27: whenever the broker hands its $$handshake to an in-process peer,
\* the peer's default handler processes it and, the handshake being valid,
\* erases itself.
C27_HandshakeProcessed ==
    \A e \in invoked :
        e.type = MSG_HANDSHAKE =>
            /\ e.handler = "default"
            /\ ~client[handle[e.handle].client_ptr].handshake_handler

\* C28: the message decoded from the body the encoder produced for a
\* Message, in either format, equals that Message in all five fields.
C28_RoundTrip == codec.stage = "decoded" => codec.back = codec.msg

\* C29: a session of the table that has not passed the handshake gate,
\* stream or in-process, has the team name $$unauthorised.
C29_UnauthorisedUntilHandshake ==
    \A h \in Range(clients) :
        ~handle[h].handshaken => handle[h].teamname = "$$unauthorised"

\* The messages without a dest a session may send, and the $$available
\* messages among them whose content has a type and a boolean available.
Undirected == {m \in CtlMessages : m.dest = "" /\ m.type # MSG_HANDSHAKE}
WellFormedAvailable(m) ==
    /\ m.type = MSG_AVAILABLE
    /\ NotEmpty(m.content["type"]) /\ IsBool(m.content["available"])

\* The step is the broker reading message m from the handshaken session h:
\* HandleMessage logs m in handled unless m is an $$available it rejects.
Reads(h, m) ==
    /\ handle[h].handshaken /\ handle[h].connected
    /\ m.type # MSG_AVAILABLE => \E e \in Entries' : e.sender = h /\ e.msg = m
    /\ \E dt \in {0, 1} : ReadReady(h, <<Frame("message", m)>>, dt)

Declared(m) ==
    [teamname |-> m.content["teamname"].s, format |-> m.content["format"].n,
     max_msg_length |-> m.content["max-message-length"].n]

\* The values session record r has adopted.
Adopted(r) ==
    [teamname |-> r.teamname, format |-> r.format,
     max_msg_length |-> r.max_msg_length]

\* C31: the step that sets handshaken adopts what the handshake declared;
\* from then on, while the session is in the table, handshaken stays true
\* and team name, format and max frame length stay as they are, and a
\* further $$handshake leaves every field of its sender as it was.
C31_HandshakeOnce ==
    [][\A h \in Handles :
          /\ \A m \in ShakeMessages :
                (/\ h \in Range(clients) /\ handle[h].connected
                 /\ IF handle[h].handshaken
                    THEN \E e \in Entries' :
                            /\ e.sender = h /\ e.msg.dest = m.dest
                            /\ e.msg.content = m.content
                    ELSE handle'[h].handshaken
                 /\ ReadReady(h, <<Frame("message", m)>>, 0))
                => IF handle[h].handshaken
                   THEN h \in Range(clients') => handle'[h] = handle[h]
                   ELSE Adopted(handle'[h]) = Declared(m)
          /\ (handle[h].handshaken /\ h \in Range(clients')) =>
                /\ handle'[h].handshaken
                /\ Adopted(handle'[h]) = Adopted(handle[h])]_vars

\* A handshaken session of team a, JSON and 1024 bytes was just read a
\* handshake addressed to all, which its handshaken neighbour was written.
C31_Witness ==
    \E h, k \in Range(clients) :
        /\ h # k /\ handle[h].handshaken /\ handle[k].handshaken
        /\ Adopted(handle[h]) = [teamname |-> "a", format |-> JSON,
                                 max_msg_length |-> 1024]
        /\ \E e \in Entries : e.sender = h /\ e.msg.type = MSG_HANDSHAKE
        /\ \E i \in 1..Len(delivered[k]) :
               /\ delivered[k][i].type = MSG_HANDSHAKE
               /\ Declared(delivered[k][i]).teamname = "b"

\* The $$error replies Write took for session h in the last step and those
\* its peer has.
ErrorsIn(log) == SelectSeq(log, LAMBDA m : m.type = MSG_ERROR)

\* C32: when the broker reads a frame Error is called for, a session that
\* has not handshaken is closed at the end of the step, and so is a
\* handshaken one whose $$error reply could not be written.
C32_ErrorCloses ==
    [][\A h \in Handles : \A f \in ErrFrames : \A dt \in {0, 1} :
          (/\ h \in Range(clients) /\ handle[h].connected
           /\ ReadReady(h, <<f>>, dt) \/ ReadBuffered(h, <<f>>, dt))
          => /\ ~handle[h].handshaken => ~handle'[h].connected
             /\ Len(ErrorsIn(attempts'[h])) > Len(ErrorsIn(delivered'[h]))
                   => ~handle'[h].connected]_vars

\* A session that was written a $$error is gone, and a handshaken one was
\* just closed because its $$error could not be written.
C32_Witness ==
    \E h, k \in Handles :
        /\ h # k /\ handle[h] = Freed /\ error_at[h] # <<>>
        /\ \E i \in 1..Len(left) : left[i].handle = k /\ left[i].team = "a"
        /\ ErrorsIn(attempts[k]) # <<>> /\ ErrorsIn(delivered[k]) = <<>>

\* C33: a step an application thread takes in Client::InternalConnect or
\* Client::Disconnect, Server::Broadcast included, leaves the fields of
\* every session that is in the table before and after it as they were.
C33_SessionFieldsOnLoop ==
    [][\A c \in Clients :
          (InternalConnect(c) \/ ClientDisconnect(c)) =>
              \A h \in Range(clients) \cap Range(clients') :
                  handle'[h] = handle[h]]_vars

\* The step is the broker reading the invalid $$available m from the
\* handshaken session h.
ReadsInvalid(h, m) ==
    /\ h \in Range(clients) /\ handle[h].connected /\ handle[h].handshaken
    /\ \E dt \in {0, 1} : \/ ReadReady(h, <<Frame("message", m)>>, dt)
                          \/ ReadBuffered(h, <<Frame("message", m)>>, dt)

\* The $$error reply to h was taken by Write and did not reach the peer.
ReplyFailed(h) == Len(ErrorsIn(attempts[h])) > Len(ErrorsIn(delivered[h]))

\* Nothing but a $$error reply to h: no other session is written, the
\* table is as it was, and no field changes but h's last_error.
OnlyErrorReply(h) ==
    /\ \A k \in Handles \ {h} : delivered'[k] = <<>>
    /\ Len(delivered'[h]) <= 1
    /\ \A i \in 1..Len(delivered'[h]) : delivered'[h][i].type = MSG_ERROR
    /\ clients' = clients
    /\ handle' = [handle EXCEPT ![h].last_error = handle'[h].last_error]

\* The statement as made: an $$available that fails validation has no
\* effect but a rate-limited $$error reply to its sender.
C34_Original ==
    [][\A h \in Handles : \A m \in InvalidMessages :
          ReadsInvalid(h, m) => (handled' = <<>> /\ OnlyErrorReply(h))]_vars

\* C34: an $$available that fails validation is routed to no session,
\* whatever its dest, and leaves its sender's unavailable list as it was;
\* it has no effect but a rate-limited $$error reply to its sender, unless
\* that reply could not be written, and then the sender is closed.
C34_InvalidAvailable ==
    [][\A h \in Handles : \A m \in InvalidMessages :
          ReadsInvalid(h, m) =>
              /\ handled' = <<>>
              /\ \A k \in Handles : \A i \in 1..Len(delivered'[k]) :
                     delivered'[k][i].type # MSG_AVAILABLE
              /\ h \in Range(clients') =>
                     handle'[h].unavailable = handle[h].unavailable
              /\ IF ReplyFailed(h)' THEN ~handle'[h].connected
                 ELSE OnlyErrorReply(h)]_vars

\* A handshaken session has the $$error for its $$available, and its
\* handshaken neighbour of the same team was written nothing.
C34_Witness ==
    \E h, k \in Range(clients) :
        /\ h # k /\ handle[h].handshaken /\ handle[k].handshaken
        /\ handle[k].connected /\ ~peerClosed[k] /\ delivered[k] = <<>>
        /\ \E i \in 1..Len(delivered[h]) :
               /\ delivered[h][i].type = MSG_ERROR
               /\ delivered[h][i].content["root"] =
                      Str("Incorrect format for $$available message")

\* C35: a session that has not completed the handshake is never written a
\* message the broker routes from another peer, by team name or to all,
\* to every recipient or to the first available one.
C35_HandshakenRecipients ==
    \A e \in Entries : \A k \in e.ok : k # e.sender => handle[k].handshaken

\* C36: once Disconnect or Disconnect_NoWrite has closed a session's
\* stream, nothing reads or writes that stream: a Stream::Read whose header
\* callback closed the session calls fread no more.
C36_NoReadAfterClose == closed_reads = {}

\* C37: whenever the broker hands a message to an in-process peer, the
\* peer's handler can call Client::Write, Client::Disconnect or
\* Server::GetClients without locking a mutex its thread already holds.
C37_NoRelock ==
    \A e \in invoked : \A call \in HandlerCalls :
        Acquires(call, e.connected) \cap e.held = {}

\* C38: a socket Client never destroys or assigns over a loop thread that
\* is joinable and was not joined, in its destructor or in a later
\* connect, also after a Disconnect that ran on the loop thread itself.
C38_LoopThreadJoined == \A h \in Handles : ~peer[h].terminate

\* C39: when the table holds a connected session other than the sender
\* that matches dest and is available for the type, an only_first message
\* is written to a session that is connected, not to one whose connected
\* flag is already false.
C39_FirstIsConnected ==
    \A e \in Entries :
        /\ e.msg.only_first
        /\ \E k \in Range(e.table) \ {e.sender} :
               /\ k \in e.open
               /\ e.team[k] = e.msg.dest \/ e.msg.dest = MSG_ALL
               /\ e.msg.type \notin e.unavailable[k]
        => /\ e.written # <<>>
           /\ Range(e.written) \subseteq e.open

\* C40: at every moment the table holds at most one session whose
\* client_ptr refers to a given in-process peer, so GetClientByPointer
\* resolves a queued message to the peer's current session.
C40_OneSessionPerPeer ==
    \A c \in Clients :
        Cardinality({h \in Range(clients) :
                        /\ handle[h].conn_type = "INTERNAL"
                        /\ handle[h].client_ptr = c}) <= 1

====
